---- MODULE Spec2Model ----
(***************************************************************************)
(* Model of the live-update channel manager (WebSocketManager) of the      *)
(* Taproot Assets extension: three push channels, a shared reconnect       *)
(* budget, a reconnect timer and a fallback polling interval.              *)
(*                                                                         *)
(* Every handler of the source is an operator from manager state to        *)
(* manager state (a record holding the fields of WebSocketManager.state    *)
(* and WebSocketManager.connections, plus the browser's timers and the     *)
(* sockets the manager no longer tracks but whose handlers are still       *)
(* attached).  An action applies one whole handler, with every call it     *)
(* makes, to the current state.  A socket whose error event fires gets its *)
(* close event in the same browser task, so the two handlers run in one    *)
(* step.                                                                   *)
(*                                                                         *)
(* The second half models the reconciliation store (taprootStore), the     *)
(* invoice and payment services that feed it, the manager's message        *)
(* handlers and the transaction views.  A JavaScript object is a function  *)
(* from the names of the properties it carries to their values; a property *)
(* the object does not carry is outside the function's domain.             *)
(***************************************************************************)
EXTENDS Integers, FiniteSets, Sequences

VARIABLES
  connections,       \* connections[t]: "null" or the readyState of the tracked socket
  orphans,           \* orphans[t]: live sockets of type t no longer tracked, handlers attached
  reconnectAttempts, \* state.reconnectAttempts
  reconnectTimeout,  \* state.reconnectTimeout: "null", or a handle: "pending" / "fired"
  timers,            \* reconnect timeouts outstanding in the browser
  fallbackPolling,   \* state.fallbackPolling
  pollingInterval,   \* state.pollingInterval is set (a handle)
  intervals,         \* polling intervals outstanding in the browser
  connected,         \* state.connected
  userId,            \* state.userId
  wsRequests,        \* channel types whose socket constructor ran in the latest connect()
  ctorThrows,        \* the page's environment: new WebSocket(url) throws synchronously
  websocketStatus,   \* taprootStore.state.websocketStatus
  lastOp,            \* the operation or callback that ran last
  invoices,          \* taprootStore.state.invoices
  payments,          \* taprootStore.state.payments
  currentWallet,     \* taprootStore.state.currentWallet is set
  filters,           \* taprootStore.state.filters
  issued,            \* the refresh requests the last step issued
  inflight,          \* inflight[k]: REST refreshes of kind k awaiting their response
  arg,               \* the payload of the last message, call or response
  pushedSince,       \* history: the status of the last invoice push that arrived
                     \* after the latest invoice refresh was requested, or "none"
  page               \* the page component: its data, and its calls in flight

vars == <<connections, orphans, reconnectAttempts, reconnectTimeout, timers,
          fallbackPolling, pollingInterval, intervals, connected, userId,
          wsRequests, ctorThrows, websocketStatus, lastOp,
          invoices, payments, currentWallet, filters, issued, inflight, arg,
          pushedSince, page>>

managerVars == <<connections, orphans, reconnectAttempts, reconnectTimeout, timers,
                 fallbackPolling, pollingInterval, intervals, connected, userId,
                 wsRequests, ctorThrows, websocketStatus>>

storeVars == <<invoices, payments, currentWallet, filters, issued, inflight, arg,
               pushedSince, page>>

\* ---------------------------------------------------------------- bounds
\* Sockets of one type that may be untracked and still alive at once.
MaxOrphans == 2
\* Reconnect timeouts that may be outstanding in the browser at once.
MaxTimers == 2

\* ------------------------------------------------------------- constants
maxReconnectAttempts == 5

Types == {"invoices", "payments", "balances"}
NoUser == "null"
Users == {"u1"}
Live == {"CONNECTING", "OPEN"}

\* ------------------------------------------------------ the manager state
State ==
  [connections |-> connections, orphans |-> orphans,
   reconnectAttempts |-> reconnectAttempts, reconnectTimeout |-> reconnectTimeout,
   timers |-> timers, fallbackPolling |-> fallbackPolling,
   pollingInterval |-> pollingInterval, intervals |-> intervals,
   connected |-> connected, userId |-> userId, wsRequests |-> wsRequests,
   ctorThrows |-> ctorThrows, websocketStatus |-> websocketStatus]

InitState ==
  [connections |-> [t \in Types |-> "null"], orphans |-> [t \in Types |-> 0],
   reconnectAttempts |-> 0, reconnectTimeout |-> "null", timers |-> 0,
   fallbackPolling |-> FALSE, pollingInterval |-> FALSE, intervals |-> 0,
   connected |-> FALSE, userId |-> NoUser, wsRequests |-> {},
   websocketStatus |-> [connected |-> FALSE, reconnecting |-> FALSE,
                        fallbackPolling |-> FALSE]]

\* The three socket URLs differ in their path prefix only (lines 84, 105,
\* 126): the constructor throws for all of them or for none.
Environments == BOOLEAN

\* Object.values(this.connections).every(conn => conn === null)
AllNull(s) == \A t \in Types : s.connections[t] = "null"

\* this.connections[type] = null: the socket that was tracked, if it is still
\* alive, keeps its onclose/onerror handlers and will deliver its events later.
Untrack(s, t) ==
  [s EXCEPT !.connections[t] = "null",
            !.orphans[t] = IF s.connections[t] \in Live THEN @ + 1 ELSE @]

\* clearTimeout(this.state.reconnectTimeout); this.state.reconnectTimeout = null
\* (a no-op on the browser's side when the handle is the timer now running).
ClearReconnectTimeout(s) ==
  IF s.reconnectTimeout = "null" THEN s
  ELSE [s EXCEPT !.reconnectTimeout = "null",
                 !.timers = IF s.reconnectTimeout = "pending" THEN @ - 1 ELSE @]

\* this.state.websocketStatus = { ...this.state.websocketStatus, ...status }
setWebsocketStatus(current, status) ==
  [g \in DOMAIN current \cup DOMAIN status |->
     IF g \in DOMAIN status THEN status[g] ELSE current[g]]

_updateStoreConnectionStatus(s, status) ==
  [s EXCEPT !.websocketStatus = setWebsocketStatus(@, status)]

\* Faulty variant: clears the interval and forgets to lower the flag.
_stopFallbackPolling_keepsFlag(s) ==
  _updateStoreConnectionStatus(
    [s EXCEPT !.intervals = IF s.pollingInterval THEN @ - 1 ELSE @,
              !.pollingInterval = FALSE],
    [fallbackPolling |-> FALSE])

_stopFallbackPolling(s) ==
  _updateStoreConnectionStatus(
    [s EXCEPT !.intervals = IF s.pollingInterval THEN @ - 1 ELSE @,
              !.pollingInterval = FALSE,
              !.fallbackPolling = FALSE],
    [fallbackPolling |-> FALSE])

_startFallbackPolling(s) ==
  IF s.fallbackPolling \/ s.pollingInterval THEN s
  ELSE [_updateStoreConnectionStatus(s, [fallbackPolling |-> TRUE])
          EXCEPT !.fallbackPolling = TRUE,
                 !.pollingInterval = TRUE,
                 !.intervals = @ + 1]

\* Faulty variant: no check of the attempt count against the maximum.
_scheduleReconnect_noLimit(s) ==
  LET c == ClearReconnectTimeout(s) IN
  [_updateStoreConnectionStatus(c, [reconnecting |-> TRUE,
                                    reconnectAttempts |-> c.reconnectAttempts + 1])
     EXCEPT !.reconnectAttempts = @ + 1,
            !.reconnectTimeout = "pending",
            !.timers = @ + 1]

_scheduleReconnect(s) ==
  LET c == ClearReconnectTimeout(s) IN
  IF c.reconnectAttempts >= maxReconnectAttempts
  THEN _updateStoreConnectionStatus(c, [reconnecting |-> FALSE, fallbackPolling |-> TRUE])
  ELSE [_updateStoreConnectionStatus(c, [reconnecting |-> TRUE,
                                         reconnectAttempts |-> c.reconnectAttempts + 1])
          EXCEPT !.reconnectAttempts = @ + 1,
                 !.reconnectTimeout = "pending",
                 !.timers = @ + 1]

\* Faulty variant: polling is started only once the retry budget is used up.
AllDown_pollsOnlyAtMax(s) ==
  LET r == _scheduleReconnect([s EXCEPT !.connected = FALSE]) IN
  IF s.reconnectAttempts >= maxReconnectAttempts THEN _startFallbackPolling(r) ELSE r

\* The tail both event handlers share: all channels down.
AllDown(s) == _startFallbackPolling(_scheduleReconnect([s EXCEPT !.connected = FALSE]))

\* The status the close handler publishes once every channel is down.
ClosedStatus(s) == [connected |-> FALSE, reconnecting |-> s.reconnectTimeout # "null"]
\* The status the error handler publishes once every channel is down.
FailedStatus == [connected |-> FALSE, reconnecting |-> TRUE]

\* Faulty variant: no check that every channel is down before scheduling.
_handleConnectionClose_alwaysSchedules(s, t) ==
  LET n == Untrack(s, t) IN AllDown(_updateStoreConnectionStatus(n, ClosedStatus(n)))

_handleConnectionClose(s, t) ==
  LET n == Untrack(s, t) IN
  IF AllNull(n) THEN AllDown(_updateStoreConnectionStatus(n, ClosedStatus(n))) ELSE n

\* close() on a tracked socket that is neither CLOSED nor CLOSING leaves it
\* closing with its handlers attached (one more untracked socket that will
\* deliver a close event); the reference is dropped either way.
_handleConnectionError(s, t) ==
  LET n == Untrack(s, t) IN
  IF AllNull(n) THEN AllDown(_updateStoreConnectionStatus(n, FailedStatus)) ELSE n

RECURSIVE CloseEach(_, _)
CloseEach(s, ts) ==
  IF ts = {} THEN s
  ELSE LET t == CHOOSE x \in ts : TRUE IN CloseEach(Untrack(s, t), ts \ {t})

\* Faulty variant: polling is left running.
closeAll_keepsPolling(s) ==
  _updateStoreConnectionStatus(
    [ClearReconnectTimeout(CloseEach(s, Types)) EXCEPT !.connected = FALSE],
    [connected |-> FALSE, reconnecting |-> FALSE, fallbackPolling |-> FALSE])

closeAll(s) ==
  _updateStoreConnectionStatus(
    [_stopFallbackPolling(ClearReconnectTimeout(CloseEach(s, Types)))
       EXCEPT !.connected = FALSE],
    [connected |-> FALSE, reconnecting |-> FALSE, fallbackPolling |-> FALSE])

\* One of _connectInvoices / _connectPayments / _connectBalances: the catch
\* block runs when the WebSocket constructor throws.
ConnectChannel(s, t) ==
  IF s.userId = NoUser THEN s
  ELSE LET r == [s EXCEPT !.wsRequests = @ \cup {t}] IN
       IF s.ctorThrows THEN _handleConnectionError(r, t)
       ELSE [Untrack(r, t) EXCEPT !.connections[t] = "CONNECTING"]

_connectInvoices(s) == ConnectChannel(s, "invoices")

_connectPayments(s) == ConnectChannel(s, "payments")

_connectBalances(s) == ConnectChannel(s, "balances")

\* Faulty variant: the balances channel is not opened.
connect_skipsBalances(s) ==
  LET c == [closeAll(s) EXCEPT !.reconnectAttempts = 0, !.wsRequests = {}]
      i == _connectInvoices(c)
      p == _connectPayments(i)
  IN _updateStoreConnectionStatus(
       [p EXCEPT !.connected = TRUE],
       [connected |-> TRUE, reconnecting |-> FALSE, fallbackPolling |-> FALSE])

connect(s) ==
  LET c == [closeAll(s) EXCEPT !.reconnectAttempts = 0, !.wsRequests = {}]
      i == _connectInvoices(c)
      p == _connectPayments(i)
      b == _connectBalances(p)
  IN _updateStoreConnectionStatus(
       [b EXCEPT !.connected = TRUE],
       [connected |-> TRUE, reconnecting |-> FALSE, fallbackPolling |-> FALSE])

initialize(s, u) ==
  IF u = NoUser THEN s
  ELSE connect([s EXCEPT !.userId = u])

destroy(s) == [closeAll(s) EXCEPT !.userId = NoUser, !.reconnectAttempts = 0]

\* The setTimeout callback of _scheduleReconnect; stored: the timer that fires
\* is the one state.reconnectTimeout names.
ReconnectCallback(s, stored) ==
  LET f == [s EXCEPT !.timers = @ - 1,
                     !.reconnectTimeout = IF stored THEN "fired" ELSE @]
  IN [connect(f) EXCEPT !.reconnectTimeout = "null"]

\* ---------------------------------------------------------------- actions
\* ------------------------------------------------ the store, as constructed
RefreshKinds == {"assets", "invoices", "payments"}
\* The refreshes whose response the store consumes.
ListKinds == {"invoices", "payments"}
\* filters.dateFrom / filters.dateTo when no date is chosen (null).
NoDate == 0

defaultFilters ==
  [direction |-> "all", status |-> "all", searchText |-> << >>,
   dateFrom |-> NoDate, dateTo |-> NoDate]

\* null
Null == [null |-> TRUE]
IsNull(v) == "null" \in DOMAIN v

\* The page's data(), with the wallets of the host's user (g.user.wallets):
\* "ok" is a wallet with an admin key, "nokey" one without, "none" no wallet.
\* storeAssets is taprootStore.state.assets; this.assets is that same array
\* when assetsFromStore, and an empty array of its own otherwise. calls are
\* the requests the latest step sent, pending the requests whose response is
\* awaited, notice the message the latest step showed. wizard is the one of
\* the page's two wizards, "invoice" or "pay", the user works with.
\* assetService: window.AssetService is loaded and has processWebSocketUpdate.
InitPage ==
  [wallets |-> "ok", wizard |-> "invoice", storeAssets |-> << >>, assetsFromStore |-> FALSE,
   invoiceDialog |-> [selectedAsset |-> Null, form |-> [amount |-> [num |-> 1]]],
   parseDialog |-> [invoice |-> Null, data |-> [request |-> << >>]],
   paymentDialog |-> [selectedAsset |-> Null, form |-> [paymentRequest |-> << >>],
                      inProgress |-> FALSE, invoiceDecodeError |-> FALSE],
   isSubmitting |-> FALSE, isRefreshing |-> FALSE,
   calls |-> {}, pending |-> {}, notice |-> << >>, assetService |-> TRUE]

InitStore ==
  /\ page = InitPage
  /\ invoices = << >>
  /\ payments = << >>
  /\ currentWallet = FALSE
  /\ filters = defaultFilters
  /\ issued = {}
  /\ inflight = [k \in ListKinds |-> 0]
  /\ arg = << >>
  /\ pushedSince = "none"

Bounded(n) ==
  /\ \A t \in Types : n.orphans[t] <= MaxOrphans
  /\ n.timers <= MaxTimers

Apply(n, op) ==
  /\ Bounded(n)
  /\ connections' = n.connections
  /\ orphans' = n.orphans
  /\ reconnectAttempts' = n.reconnectAttempts
  /\ reconnectTimeout' = n.reconnectTimeout
  /\ timers' = n.timers
  /\ fallbackPolling' = n.fallbackPolling
  /\ pollingInterval' = n.pollingInterval
  /\ intervals' = n.intervals
  /\ connected' = n.connected
  /\ userId' = n.userId
  /\ wsRequests' = n.wsRequests
  /\ ctorThrows' = n.ctorThrows
  /\ websocketStatus' = n.websocketStatus
  /\ lastOp' = op
  /\ UNCHANGED storeVars

Init ==
  /\ connections = InitState.connections
  /\ orphans = InitState.orphans
  /\ reconnectAttempts = InitState.reconnectAttempts
  /\ reconnectTimeout = InitState.reconnectTimeout
  /\ timers = InitState.timers
  /\ fallbackPolling = InitState.fallbackPolling
  /\ pollingInterval = InitState.pollingInterval
  /\ intervals = InitState.intervals
  /\ connected = InitState.connected
  /\ userId = InitState.userId
  /\ wsRequests = InitState.wsRequests
  /\ websocketStatus = InitState.websocketStatus
  /\ ctorThrows \in Environments
  /\ lastOp = "none"
  /\ InitStore

Initialize ==
  \E u \in Users \cup {NoUser} :
    Apply(initialize(State, u), IF u = NoUser THEN "initializeNoUser" ELSE "initialize")

Connect == Apply(connect(State), "connect")

CloseAll == Apply(closeAll(State), "closeAll")

Destroy == Apply(destroy(State), "destroy")

\* The tracked socket of type t finishes its handshake (no onopen handler).
SocketOpens ==
  \E t \in Types :
    /\ connections[t] = "CONNECTING"
    /\ Apply([State EXCEPT !.connections[t] = "OPEN"], "open")

\* The tracked socket of type t closes cleanly: readyState CLOSED, close event.
SocketCloses ==
  \E t \in Types :
    /\ connections[t] \in Live
    /\ Apply(_handleConnectionClose([State EXCEPT !.connections[t] = "CLOSED"], t), "close")

\* The tracked socket of type t fails: readyState CLOSED, then the error event
\* and the close event in the same task.
SocketFails ==
  \E t \in Types :
    /\ connections[t] \in Live
    /\ Apply(_handleConnectionClose(
               _handleConnectionError([State EXCEPT !.connections[t] = "CLOSED"], t), t),
             "error")

\* An untracked socket of type t delivers its close event.
StaleClose ==
  \E t \in Types :
    /\ orphans[t] > 0
    /\ Apply(_handleConnectionClose([State EXCEPT !.orphans[t] = @ - 1], t), "staleClose")

\* An untracked socket of type t delivers its error event, then its close event.
StaleFail ==
  \E t \in Types :
    /\ orphans[t] > 0
    /\ Apply(_handleConnectionClose(
               _handleConnectionError([State EXCEPT !.orphans[t] = @ - 1], t), t),
             "staleError")

\* The reconnect timer that state.reconnectTimeout names fires.
ReconnectTimerFires ==
  /\ reconnectTimeout = "pending"
  /\ Apply(ReconnectCallback(State, TRUE), "timer")

\* A reconnect timer whose handle is no longer stored fires.
LostTimerFires ==
  /\ timers > (IF reconnectTimeout = "pending" THEN 1 ELSE 0)
  /\ Apply(ReconnectCallback(State, FALSE), "lostTimer")

\* The polling interval ticks: _refreshAssets and _refreshTransactions.
PollTick ==
  /\ intervals > 0
  /\ Apply(State, "poll")

Next ==
  \/ Initialize
  \/ Connect
  \/ CloseAll
  \/ Destroy
  \/ SocketOpens
  \/ SocketCloses
  \/ SocketFails
  \/ StaleClose
  \/ StaleFail
  \/ ReconnectTimerFires
  \/ LostTimerFires
  \/ PollTick

Spec == Init /\ [][Next]_vars

\* ------------------------------------------------------------- vocabulary
SocketEvents == {"close", "error", "staleClose", "staleError"}
TimerOps == {"timer", "lostTimer"}
ConnectOps == {"initialize", "connect"} \cup TimerOps
CloseAllOps == ConnectOps \cup {"closeAll", "destroy"}
AllUntracked == \A t \in Types : connections[t] = "null"
AllConnected == \A t \in Types : connections[t] = "OPEN"
RetryPending == reconnectTimeout = "pending"
\* No socket constructor threw in the latest connect().
NoCtorFailure == \A t \in wsRequests : connections[t] # "null"
OnlyDown(t) ==
  /\ connections[t] = "null"
  /\ \A u \in Types \ {t} : connections[u] = "OPEN"

\* ------------------------------------------------------------------- C1
\* C1: a timer-driven reconnect attempt does not reset the retry counter, so
\* that maxReconnectAttempts consecutive failures exhaust the budget.
C1_CounterSurvivesTimerReconnect ==
  [][lastOp' \in TimerOps => reconnectAttempts' >= reconnectAttempts]_vars

\* ------------------------------------------------------------------- C2
\* C2: a close or error event that leaves some channel tracked changes neither
\* the retry counter nor any timer; an event that leaves all three down
\* raises the counter by exactly one (an error followed by the close of the
\* same socket is one event) and leaves exactly one reconnect timer.
C2_OneIncrementPerEpisode ==
  [][lastOp' \in SocketEvents =>
       IF AllUntracked'
       THEN /\ reconnectAttempts' <= reconnectAttempts + 1
            /\ timers' <= 1
       ELSE /\ reconnectAttempts' = reconnectAttempts
            /\ timers' = timers
            /\ reconnectTimeout' = reconnectTimeout]_vars

\* ------------------------------------------------------------------- C3
\* C3 as stated: no polling interval runs while the retry counter is below
\* maxReconnectAttempts.
C3_NoPollingBelowMax ==
  reconnectAttempts < maxReconnectAttempts => ~pollingInterval

\* C3 amended: polling starts with the first close or error event that leaves
\* all three channels down, whatever the retry counter (which is then at
\* least 1), and once started it runs until the next closeAll(): called
\* directly, by destroy(), or at the start of any connect(), timer-driven
\* ones included.
C3_PollingStartsAtFirstAllDown ==
  /\ [](pollingInterval => reconnectAttempts >= 1)
  /\ [][(lastOp' \in SocketEvents /\ AllUntracked') => pollingInterval']_vars
  /\ [][(pollingInterval /\ ~pollingInterval') => lastOp' \in CloseAllOps]_vars

C3_Witness ==
  /\ lastOp \in SocketEvents
  /\ AllUntracked
  /\ pollingInterval
  /\ reconnectAttempts = 1

\* ------------------------------------------------------------------- C4
\* C4 as stated: once polling is active, a step other than closeAll(),
\* destroy() or a manual connect() / initialize() leaves it active unless all
\* three channels are connected afterwards; a timer-driven reconnect attempt
\* in particular does not stop it.
C4_PollingSurvivesTimerReconnect ==
  [][(fallbackPolling /\ lastOp' \notin {"closeAll", "destroy", "connect", "initialize"})
       => (fallbackPolling' \/ AllConnected')]_vars

\* C4 amended: polling is stopped by closeAll() and by nothing else; every
\* closeAll() stops it, the one at the start of a timer-driven connect()
\* included, whether or not the attempt restores a channel (polling is on
\* after a connect() only if a socket constructor failed during it).
C4_PollingStopsExactlyInCloseAll ==
  [][/\ (fallbackPolling /\ lastOp' \notin CloseAllOps) => fallbackPolling'
     /\ lastOp' \in {"closeAll", "destroy"} => ~fallbackPolling'
     /\ (lastOp' \in ConnectOps /\ NoCtorFailure') => ~fallbackPolling']_vars

C4_Witness ==
  /\ lastOp = "timer"
  /\ userId # NoUser
  /\ ~fallbackPolling
  /\ \A t \in Types : connections[t] = "CONNECTING"

\* ------------------------------------------------------------------- C5
\* C5 as stated: polling is active iff not all three channels are connected
\* and no reconnect retry is pending.
C5_PollingIffDownAndNoRetry ==
  fallbackPolling <=> (~AllConnected /\ ~RetryPending)

\* C5 amended: polling is active exactly when the polling interval is set;
\* then not all three channels are connected; and whenever a reconnect
\* retry is pending polling is active too.
C5_PollingImpliesDown ==
  /\ fallbackPolling <=> pollingInterval
  /\ fallbackPolling => ~AllConnected
  /\ RetryPending => fallbackPolling

C5_Witness == fallbackPolling /\ RetryPending /\ ~AllConnected

\* ------------------------------------------------------------------- C6
\* C6: at most one reconnect timer and at most one polling interval are
\* outstanding, and each outstanding one is the one whose handle is stored
\* in state.reconnectTimeout / state.pollingInterval.
C6_TimersAreTheStoredOnes ==
  /\ timers <= 1
  /\ intervals <= 1
  /\ timers = 1 <=> reconnectTimeout = "pending"
  /\ intervals = 1 <=> pollingInterval

\* ------------------------------------------------------------------- C7
\* C7: from destroy() until the next initialize() (no user identity is set)
\* no reconnect timer and no polling interval is outstanding.
C7_NoTimersAfterDestroy ==
  userId = NoUser => (timers = 0 /\ intervals = 0)

\* ------------------------------------------------------------------- C8
\* C8 as stated: a channel that closes or errors while the other two stay
\* connected is reconnected by the manager. Nothing but a reconnect timer
\* reopens a channel without a call from outside, so after such an event a
\* reconnect timer has to be outstanding.
C8_SingleChannelReconnects ==
  \A t \in Types :
    (lastOp \in {"close", "error"} /\ OnlyDown(t)) => timers > 0

\* C8 amended: the channels do not reconnect independently. A close or error
\* event that leaves some channel tracked changes neither the retry counter
\* nor any timer, and a channel that is down is tracked again only by a
\* connect() that reopens all three at once.
C8_ChannelsReconnectTogether ==
  /\ [][(lastOp' \in SocketEvents /\ ~AllUntracked') =>
          /\ reconnectAttempts' = reconnectAttempts
          /\ timers' = timers
          /\ reconnectTimeout' = reconnectTimeout]_vars
  /\ [][\A t \in Types :
          (connections[t] = "null" /\ connections'[t] # "null") =>
             /\ lastOp' \in ConnectOps
             /\ wsRequests' = Types
             /\ \A u \in Types : connections'[u] \in {"null", "CONNECTING"}]_vars

C8_Witness ==
  /\ lastOp \in {"close", "error"}
  /\ \E t \in Types : OnlyDown(t)
  /\ timers = 0
  /\ reconnectAttempts = 0

\* ------------------------------------------------------------------- C9
\* C9: the retry counter stays within 0 .. maxReconnectAttempts.
C9_AttemptsBounded ==
  reconnectAttempts \in 0..maxReconnectAttempts

C9_Witness ==
  /\ reconnectAttempts = maxReconnectAttempts
  /\ lastOp \in SocketEvents

\* ------------------------------------------------------------------ C10
\* C10: initialize(userId) with an identity records it and runs the socket
\* constructor of all three channels in that step (each channel is then
\* connecting, or untracked if its constructor threw); initialize() without
\* an identity changes nothing of the manager.
C10_InitializeOpensAll ==
  /\ [][lastOp' = "initialize" =>
          /\ userId' \in Users
          /\ wsRequests' = Types
          /\ \A t \in Types : connections'[t] \in {"null", "CONNECTING"}
          /\ connected']_vars
  /\ [][lastOp' = "initializeNoUser" => State' = State]_vars

C10_Witness ==
  /\ lastOp = "initialize"
  /\ userId \in Users
  /\ wsRequests = Types
  /\ \A t \in Types : connections[t] = "CONNECTING"

\* ======================================================================
\*                 The reconciliation store and its feeders
\* ======================================================================

\* ----------------------------------------------------- JavaScript objects
Undefined == "undefined"
Has(o, f) == f \in DOMAIN o
\* o.f for a string-valued property: its value, or undefined.
Get(o, f) == IF Has(o, f) THEN o[f] ELSE Undefined
\* A status used as a condition: undefined and '' are falsy.
Truthy(v) == v # Undefined /\ v # ""
\* Free text (memo, description, payment_hash, search text) is a sequence of
\* characters; o.f used as a condition: undefined and '' are falsy.
HasText(o, f) == Has(o, f) /\ o[f] # << >>
\* a.f === b.f
Same(a, b, f) == (Has(a, f) <=> Has(b, f)) /\ (Has(a, f) => a[f] = b[f])
\* o.f = v
Assign(o, f, v) == [g \in DOMAIN o \cup {f} |-> IF g = f THEN v ELSE o[g]]
\* {...a, ...b}
Spread(a, b) ==
  [g \in DOMAIN a \cup DOMAIN b |-> IF g \in DOMAIN b THEN b[g] ELSE a[g]]

\* array.findIndex(x => x.id === id), 1-based; 0 stands for JavaScript's -1.
findIndex(list, id) ==
  IF \E i \in 1..Len(list) : Get(list[i], "id") = id
  THEN CHOOSE i \in 1..Len(list) :
         /\ Get(list[i], "id") = id
         /\ \A j \in 1..(i - 1) : Get(list[j], "id") # id
  ELSE 0

\* ------------------------------------------------- DataUtils.mapTransaction
\* {} : an object without properties.
EmptyObject == << >>

\* extra.f = mapped.f, done when extra has no f and mapped has one.
CopyMissing(extra, mapped, f) ==
  IF ~Has(extra, f) /\ Has(mapped, f) THEN Assign(extra, f, mapped[f]) ELSE extra

\* The object mapped.extra refers to when mapTransaction returns.  For an
\* invoice it is the transaction's own extra object (the spread copies the
\* reference), completed in place, or a new object when there was none; for
\* a payment it is always a new object built from the record's properties.
ExtraOf(transaction, type) ==
  IF type = "invoice"
  THEN LET extra == IF Has(transaction, "extra") THEN transaction["extra"]
                    ELSE EmptyObject
       IN CopyMissing(CopyMissing(extra, transaction, "asset_amount"),
                      transaction, "asset_id")
  ELSE [f \in {"asset_amount", "asset_id", "fee_sats"} \cap DOMAIN transaction
          |-> transaction[f]]

\* The copy the services store: type and direction are set, memo is taken
\* from the backend's description when the record has no memo of its own, and
\* extra holds the asset information.  The formatted date strings (date,
\* timeFrom) depend on the clock and the locale and are not represented.
mapTransaction(transaction, type) ==
  LET typed == Assign(transaction, "type", type)
      directed == Assign(typed, "direction",
                         IF type = "invoice" THEN "incoming" ELSE "outgoing")
      described == IF HasText(directed, "description") /\ ~HasText(directed, "memo")
                   THEN Assign(directed, "memo", directed["description"])
                   ELSE directed
  IN Assign(described, "extra", ExtraOf(transaction, type))

\* The object passed to mapTransaction, as the call leaves it: the only
\* object the copy shares with it is an invoice's extra.
mapTransaction_source(transaction, type) ==
  IF type = "invoice" /\ Has(transaction, "extra")
  THEN Assign(transaction, "extra", ExtraOf(transaction, type))
  ELSE transaction

\* PaymentService._getAssetName: 'Unknown' without an id; the asset list is
\* outside this model, so an id is known nowhere and its shortened form is
\* the name.
_getAssetName(assetId) == IF Truthy(assetId) THEN "Asset" ELSE "Unknown"

_mapInvoice(invoice) == mapTransaction(invoice, "invoice")

\* PaymentService._mapPayment: the mapped copy, with the asset's name looked
\* up when the record names an asset, and added to its extra.
_mapPayment(payment) ==
  LET mapped == mapTransaction(payment, "payment")
      named == IF Truthy(Get(mapped, "asset_id")) /\ ~Has(mapped, "asset_name")
               THEN LET withName == Assign(mapped, "asset_name",
                                           _getAssetName(mapped["asset_id"]))
                    IN IF ~HasText(withName, "memo")
                          /\ withName["asset_name"] # "Unknown"
                       THEN Assign(withName, "memo", << >>)
                       ELSE withName
               ELSE mapped
  IN Assign(named, "extra",
            Assign(named["extra"], "asset_name",
                   IF Has(named, "asset_name") THEN named["asset_name"]
                   ELSE _getAssetName(Get(named, "asset_id"))))

RECURSIVE MapEach(_, _)
\* response.data.map(x => this._mapInvoice(x)), and the same for payments
MapEach(list, type) ==
  IF list = << >> THEN << >>
  ELSE <<IF type = "invoice" THEN _mapInvoice(Head(list))
         ELSE _mapPayment(Head(list))>> \o MapEach(Tail(list), type)

\* ------------------------------------------------------ taprootStore.actions
\* The four upserts work on one collection; the store record st holds both.
setInvoices(st, list) == [st EXCEPT !.invoices = list]
setPayments(st, list) == [st EXCEPT !.payments = list]

\* Faulty variant: the incoming record is merged into the one the collection
\* holds.
AddTo_merges(list, record) ==
  LET index == findIndex(list, Get(record, "id")) IN
  IF index # 0
  THEN LET marked ==
             IF Get(list[index], "status") # Get(record, "status")
             THEN Assign(Assign(record, "_previousStatus", Get(list[index], "status")),
                         "_statusChanged", TRUE)
             ELSE record
       IN [list EXCEPT ![index] = Spread(list[index], marked)]
  ELSE <<Assign(record, "_isNew", TRUE)>> \o list

\* Faulty variant: a new record is pushed to the end of the collection.
AddTo_appends(list, record) ==
  LET index == findIndex(list, Get(record, "id")) IN
  IF index # 0
  THEN LET marked ==
             IF Get(list[index], "status") # Get(record, "status")
             THEN Assign(Assign(record, "_previousStatus", Get(list[index], "status")),
                         "_statusChanged", TRUE)
             ELSE record
       IN [list EXCEPT ![index] = marked]
  ELSE list \o <<Assign(record, "_isNew", TRUE)>>

\* Faulty variant: an updated record moves to the front of the collection.
AddTo_movesToFront(list, record) ==
  LET index == findIndex(list, Get(record, "id")) IN
  IF index # 0
  THEN LET marked ==
             IF Get(list[index], "status") # Get(record, "status")
             THEN Assign(Assign(record, "_previousStatus", Get(list[index], "status")),
                         "_statusChanged", TRUE)
             ELSE record
       IN <<marked>> \o SubSeq(list, 1, index - 1) \o SubSeq(list, index + 1, Len(list))
  ELSE <<Assign(record, "_isNew", TRUE)>> \o list

\* Faulty variant: the previous status is read after the record is replaced.
AddTo_forgetsPrevious(list, record) ==
  LET index == findIndex(list, Get(record, "id")) IN
  IF index # 0
  THEN LET marked ==
             IF Get(list[index], "status") # Get(record, "status")
             THEN Assign(Assign(record, "_previousStatus", Get(record, "status")),
                         "_statusChanged", TRUE)
             ELSE record
       IN [list EXCEPT ![index] = marked]
  ELSE <<Assign(record, "_isNew", TRUE)>> \o list

\* Faulty variant: the record is prepended without looking for its id.
AddTo_alwaysPrepends(list, record) ==
  <<Assign(record, "_isNew", TRUE)>> \o list

\* The body shared by addInvoice and addPayment, on the collection it is given.
AddTo(list, record) ==
  LET index == findIndex(list, Get(record, "id")) IN
  IF index # 0
  THEN LET marked ==
             IF Get(list[index], "status") # Get(record, "status")
             THEN Assign(Assign(record, "_previousStatus", Get(list[index], "status")),
                         "_statusChanged", TRUE)
             ELSE record
       IN [list EXCEPT ![index] = marked]
  ELSE <<Assign(record, "_isNew", TRUE)>> \o list

\* Faulty variant: the status-change mark is set whenever the changes carry
\* a status, changed or not.
UpdateIn_marksAnyStatus(list, id, changes) ==
  LET index == findIndex(list, id) IN
  IF index # 0
  THEN LET marked ==
             IF Truthy(Get(changes, "status"))
             THEN Assign(Assign(changes, "_previousStatus", Get(list[index], "status")),
                         "_statusChanged", TRUE)
             ELSE changes
       IN [list EXCEPT ![index] = Spread(list[index], marked)]
  ELSE list

\* The body shared by updateInvoice and updatePayment.
UpdateIn(list, id, changes) ==
  LET index == findIndex(list, id) IN
  IF index # 0
  THEN LET marked ==
             IF /\ Truthy(Get(changes, "status"))
                /\ Get(list[index], "status") # Get(changes, "status")
             THEN Assign(Assign(changes, "_previousStatus", Get(list[index], "status")),
                         "_statusChanged", TRUE)
             ELSE changes
       IN [list EXCEPT ![index] = Spread(list[index], marked)]
  ELSE list

addInvoice(st, invoice) == [st EXCEPT !.invoices = AddTo(st.invoices, invoice)]
addPayment(st, payment) == [st EXCEPT !.payments = AddTo(st.payments, payment)]
updateInvoice(st, invoiceId, changes) ==
  [st EXCEPT !.invoices = UpdateIn(st.invoices, invoiceId, changes)]
updatePayment(st, paymentId, changes) ==
  [st EXCEPT !.payments = UpdateIn(st.payments, paymentId, changes)]
setCurrentWallet(st) == [st EXCEPT !.currentWallet = TRUE]

\* ------------------------------------------------------------ store state
Store ==
  [invoices |-> invoices, payments |-> payments, currentWallet |-> currentWallet,
   filters |-> filters, issued |-> issued, inflight |-> inflight]

\* The store as a handler finds it: nothing issued yet in this step.
Fresh == [Store EXCEPT !.issued = {}]

\* REST refreshes of one kind that may await their response at once.
MaxInflight == 1

\* ------------------------------------------- what the backend sends (inputs)
\* The identifiers of the records the upsert runs work on, and of the
\* records the push-and-refresh runs exchange.
InvoiceIds == {"a", "b"}
PaymentIds == {"p"}
FeedInvoiceIds == {"a"}
FeedPaymentIds == {"p"}
InvoiceStatuses == {"pending", "paid"}
PaymentStatuses == {"pending", "completed"}
Descriptions == {<<"C", "o">>}

\* A backend record: id and status, with or without a description.
Records(ids, statuses) ==
  {[id |-> i, status |-> x] : i \in ids, x \in statuses}
    \cup {[id |-> i, status |-> x, description |-> d] :
            i \in ids, x \in statuses, d \in Descriptions}

InvoiceData(ids) == Records(ids, InvoiceStatuses)
PaymentData(ids) == Records(ids, PaymentStatuses)

\* The {type, data} envelopes of the push channels.
InvoiceUpdates(ids) == {[type |-> "invoice_update", data |-> d] : d \in InvoiceData(ids)}
PaymentUpdates(ids) == {[type |-> "payment_update", data |-> d] : d \in PaymentData(ids)}
Envelopes == InvoiceUpdates(FeedInvoiceIds) \cup PaymentUpdates(FeedPaymentIds)

\* Sequences without repetition over a set of backend records, one per id.
RECURSIVE Listings(_, _)
Listings(data, ids) ==
  {<< >>} \cup
  UNION {{<<d>> \o rest : rest \in Listings(data, ids \ {d.id})} :
           d \in {x \in data : x.id \in ids}}

\* What a REST list request ends with: a response whose data is a list of
\* backend records, or a rejection.
Failure == [ok |-> FALSE]
Responses(data, ids) == {[ok |-> TRUE, data |-> l] : l \in Listings(data, ids)}
InvoiceResponses == Responses(InvoiceData(FeedInvoiceIds), FeedInvoiceIds) \cup {Failure}
PaymentResponses == Responses(PaymentData(FeedPaymentIds), FeedPaymentIds) \cup {Failure}

\* ------------------------------------------------------ service operations
\* An asynchronous service call up to its first await: the request leaves.
Request(st, kind) ==
  [st EXCEPT !.issued = @ \cup {kind},
             !.inflight = IF kind \in DOMAIN @
                          THEN [@ EXCEPT ![kind] = @ + 1] ELSE @]

AssetService_getAssets(st) == Request(st, "assets")
InvoiceService_getInvoices(st) == Request(setCurrentWallet(st), "invoices")
PaymentService_getPayments(st) == Request(setCurrentWallet(st), "payments")

\* The rest of getInvoices / getPayments, when the response arrives.
Arrived(st, kind) == [st EXCEPT !.issued = {}, !.inflight[kind] = @ - 1]

getInvoices_resume(st, response) ==
  IF response.ok
  THEN setInvoices(Arrived(st, "invoices"), MapEach(response.data, "invoice"))
  ELSE setInvoices(Arrived(st, "invoices"), << >>)

getPayments_resume(st, response) ==
  IF response.ok
  THEN setPayments(Arrived(st, "payments"), MapEach(response.data, "payment"))
  ELSE setPayments(Arrived(st, "payments"), << >>)

\* ------------------------------------------------- NotificationService
\* notifyInvoicePaid: marks the invoice paid in the store and refreshes assets.
paidChanges == [status |-> "paid", paid_at |-> "now"]

notifyInvoicePaid(st, invoice) ==
  LET updated == IF Truthy(Get(invoice, "id"))
                 THEN updateInvoice(st, invoice["id"], paidChanges)
                 ELSE st
  IN IF updated.currentWallet THEN AssetService_getAssets(updated) ELSE updated

\* --------------------------------------------- the services' push handling
InvoiceService_processWebSocketUpdate(st, data) ==
  IF Get(data, "type") # "invoice_update" \/ ~Has(data, "data") THEN st
  ELSE addInvoice(st, _mapInvoice(data["data"]))

PaymentService_processWebSocketUpdate(st, data) ==
  IF Get(data, "type") # "payment_update" \/ ~Has(data, "data") THEN st
  ELSE addPayment(st, _mapPayment(data["data"]))

\* ------------------------------------------ the manager's message handlers
_refreshAssets(st) ==
  IF st.currentWallet THEN AssetService_getAssets(st) ELSE st

_refreshTransactions(st) ==
  IF st.currentWallet
  THEN PaymentService_getPayments(InvoiceService_getInvoices(st))
  ELSE st

_handleInvoiceMessage(st, data) ==
  LET processed == InvoiceService_processWebSocketUpdate(st, data) IN
  IF /\ Get(data, "type") = "invoice_update"
     /\ Has(data, "data")
     /\ Get(data["data"], "status") = "paid"
  THEN _refreshAssets(notifyInvoicePaid(processed, _mapInvoice(data["data"])))
  ELSE processed

\* Faulty variant: a completed payment refreshes the assets only.
_handlePaymentMessage_assetsOnly(st, data) ==
  LET processed == PaymentService_processWebSocketUpdate(st, data) IN
  IF /\ Get(data, "type") = "payment_update"
     /\ Has(data, "data")
     /\ Get(data["data"], "status") = "completed"
  THEN _refreshAssets(processed)
  ELSE processed

_handlePaymentMessage(st, data) ==
  LET processed == PaymentService_processWebSocketUpdate(st, data) IN
  IF /\ Get(data, "type") = "payment_update"
     /\ Has(data, "data")
     /\ Get(data["data"], "status") = "completed"
  THEN _refreshTransactions(_refreshAssets(processed))
  ELSE processed

\* An assets_update: the asset list is not part of this model; the handler
\* then refreshes the transactions.
_handleBalanceMessage(st) == _refreshTransactions(st)

\* --------------------------------------------------------- user operations
\* createInvoice: the backend answers with the new, pending invoice.
CreatedInvoices == {d \in InvoiceData(FeedInvoiceIds) : d.status = "pending"}

\* payInvoice: the payment record the service builds from the response.
BuiltPayments ==
  {[id |-> i, status |-> "completed", memo |-> m] :
     i \in FeedPaymentIds, m \in Descriptions \cup {<< >>}}

\* The changes the callers of updateInvoice pass, and changes for the
\* store's updatePayment, which the rest of the program never calls.
InvoiceChanges == {paidChanges}
PaymentChanges == {[status |-> "completed"]} \cup {[memo |-> d] : d \in Descriptions}

\* ----------------------------------------------------------- store actions
ApplyStore(n, op, payload) ==
  /\ \A k \in ListKinds : n.inflight[k] <= MaxInflight
  /\ invoices' = n.invoices
  /\ payments' = n.payments
  /\ currentWallet' = n.currentWallet
  /\ filters' = n.filters
  /\ issued' = n.issued
  /\ inflight' = n.inflight
  /\ arg' = payload
  /\ lastOp' = op
  /\ page' = page
  /\ pushedSince' =
       IF n.inflight["invoices"] > inflight["invoices"] THEN "none"
       ELSE IF op = "invoiceMessage" /\ payload["type"] = "invoice_update"
            THEN payload["data"]["status"]
            ELSE pushedSince
  /\ UNCHANGED managerVars

StoreInit ==
  /\ connections = InitState.connections
  /\ orphans = InitState.orphans
  /\ reconnectAttempts = InitState.reconnectAttempts
  /\ reconnectTimeout = InitState.reconnectTimeout
  /\ timers = InitState.timers
  /\ fallbackPolling = InitState.fallbackPolling
  /\ pollingInterval = InitState.pollingInterval
  /\ intervals = InitState.intervals
  /\ connected = InitState.connected
  /\ userId = InitState.userId
  /\ wsRequests = InitState.wsRequests
  /\ websocketStatus = InitState.websocketStatus
  /\ ctorThrows = FALSE
  /\ lastOp = "none"
  /\ InitStore

InvoiceMessage ==
  \E data \in Envelopes :
    ApplyStore(_handleInvoiceMessage(Fresh, data), "invoiceMessage", data)

PaymentMessage ==
  \E data \in Envelopes :
    ApplyStore(_handlePaymentMessage(Fresh, data), "paymentMessage", data)

BalanceMessage ==
  ApplyStore(_handleBalanceMessage(Fresh), "balanceMessage", << >>)

GetInvoices ==
  ApplyStore(InvoiceService_getInvoices(Fresh), "getInvoices", << >>)

GetPayments ==
  ApplyStore(PaymentService_getPayments(Fresh), "getPayments", << >>)

InvoicesResponse ==
  /\ inflight["invoices"] > 0
  /\ \E response \in InvoiceResponses :
       ApplyStore(getInvoices_resume(Store, response), "invoicesResponse", response)

PaymentsResponse ==
  /\ inflight["payments"] > 0
  /\ \E response \in PaymentResponses :
       ApplyStore(getPayments_resume(Store, response), "paymentsResponse", response)

CreateInvoice ==
  \E d \in CreatedInvoices :
    ApplyStore(addInvoice(Fresh, _mapInvoice(d)), "createInvoice", d)

PayInvoice ==
  \E d \in BuiltPayments :
    ApplyStore(addPayment(Fresh, _mapPayment(d)), "payInvoice", d)

StoreNext ==
  \/ InvoiceMessage
  \/ PaymentMessage
  \/ BalanceMessage
  \/ GetInvoices
  \/ GetPayments
  \/ InvoicesResponse
  \/ PaymentsResponse
  \/ CreateInvoice
  \/ PayInvoice

StoreSpec == StoreInit /\ [][StoreNext]_vars

\* ------------------------------------------------------- the upserts alone
\* The four upserts of the store, called the way the services call them:
\* add* with a freshly mapped backend record, update* with a changes object.
AddInvoice ==
  \E data \in InvoiceUpdates(InvoiceIds) :
    ApplyStore(InvoiceService_processWebSocketUpdate(Fresh, data), "addInvoice", data)

AddPayment ==
  \E data \in PaymentUpdates(PaymentIds) :
    ApplyStore(PaymentService_processWebSocketUpdate(Fresh, data), "addPayment", data)

UpdateInvoice ==
  \E i \in InvoiceIds, changes \in InvoiceChanges :
    ApplyStore(updateInvoice(Fresh, i, changes), "updateInvoice",
               [id |-> i, changes |-> changes])

UpdatePayment ==
  \E i \in PaymentIds, changes \in PaymentChanges :
    ApplyStore(updatePayment(Fresh, i, changes), "updatePayment",
               [id |-> i, changes |-> changes])

\* The same update once more: the push message is delivered again (mapped
\* afresh), the same update call is made again.
AddInvoiceAgain ==
  /\ lastOp \in {"addInvoice", "addInvoiceAgain"}
  /\ ApplyStore(InvoiceService_processWebSocketUpdate(Fresh, arg), "addInvoiceAgain", arg)

AddPaymentAgain ==
  /\ lastOp \in {"addPayment", "addPaymentAgain"}
  /\ ApplyStore(PaymentService_processWebSocketUpdate(Fresh, arg), "addPaymentAgain", arg)

UpdateInvoiceAgain ==
  /\ lastOp \in {"updateInvoice", "updateInvoiceAgain"}
  /\ ApplyStore(updateInvoice(Fresh, arg["id"], arg["changes"]), "updateInvoiceAgain", arg)

UpdatePaymentAgain ==
  /\ lastOp \in {"updatePayment", "updatePaymentAgain"}
  /\ ApplyStore(updatePayment(Fresh, arg["id"], arg["changes"]), "updatePaymentAgain", arg)

UpsertNext ==
  \/ AddInvoice
  \/ AddPayment
  \/ UpdateInvoice
  \/ UpdatePayment
  \/ AddInvoiceAgain
  \/ AddPaymentAgain
  \/ UpdateInvoiceAgain
  \/ UpdatePaymentAgain

UpsertSpec == StoreInit /\ [][UpsertNext]_vars

\* ======================================================================
\*                     Claims about the store and its feeders
\* ======================================================================

\* The last step handled a paid invoice / a completed payment.
PaidInvoiceHandled ==
  /\ lastOp = "invoiceMessage"
  /\ arg["type"] = "invoice_update"
  /\ arg["data"]["status"] = "paid"

CompletedPaymentHandled ==
  /\ lastOp = "paymentMessage"
  /\ arg["type"] = "payment_update"
  /\ arg["data"]["status"] = "completed"

Markers == {"_isNew", "_statusChanged", "_previousStatus"}
Unmarked(o) == [f \in DOMAIN o \ Markers |-> o[f]]
UnmarkedAll(list) == [i \in 1..Len(list) |-> Unmarked(list[i])]

AddAgainOps == {"addInvoiceAgain", "addPaymentAgain"}
UpdateAgainOps == {"updateInvoiceAgain", "updatePaymentAgain"}

AddInvoiceOps == {"addInvoice", "addInvoiceAgain"}
AddPaymentOps == {"addPayment", "addPaymentAgain"}
UpdateInvoiceOps == {"updateInvoice", "updateInvoiceAgain"}
UpdatePaymentOps == {"updatePayment", "updatePaymentAgain"}

\* The record at position i carries the status-changed marker, with prev as
\* the previous status.
MarkedChanged(list, i, prev) ==
  /\ Has(list[i], "_statusChanged")
  /\ list[i]["_statusChanged"] = TRUE
  /\ Get(list[i], "_previousStatus") = prev

\* What the claim says of merging an update with the given status into the
\* record of that id, if the collection held one.
MarksAsClaimed(before, after, id, status) ==
  LET i == findIndex(before, id) IN
  i # 0 =>
    IF status = Get(before[i], "status") \/ status = Undefined
    THEN ~Has(after[i], "_statusChanged")
    ELSE MarkedChanged(after, i, Get(before[i], "status"))

\* The same for updateInvoice / updatePayment, where an unchanged status
\* leaves an earlier marker and its previous status in place.
MarksKept(before, after, id, status) ==
  LET i == findIndex(before, id) IN
  i # 0 =>
    IF status = Get(before[i], "status") \/ status = Undefined
    THEN /\ Has(after[i], "_statusChanged") <=> Has(before[i], "_statusChanged")
         /\ Get(after[i], "_previousStatus") = Get(before[i], "_previousStatus")
    ELSE MarkedChanged(after, i, Get(before[i], "status"))

MergedInPlace(before, after, incoming) ==
  LET i == findIndex(before, incoming["id"]) IN
  i # 0 =>
    /\ Len(after) = Len(before)
    /\ findIndex(after, incoming["id"]) = i
    /\ \A f \in DOMAIN before[i] \ (DOMAIN incoming \cup Markers) :
         Has(after[i], f) /\ after[i][f] = before[i][f]

\* What the code does there: the record stays where it is, the others are
\* untouched, and the stored record is the incoming one, with at most the
\* status-change marker pair added; nothing of the earlier record survives.
ReplacedInPlace(before, after, incoming) ==
  LET i == findIndex(before, incoming["id"]) IN
  i # 0 =>
    /\ Len(after) = Len(before)
    /\ findIndex(after, incoming["id"]) = i
    /\ \A j \in 1..Len(before) : j # i => after[j] = before[j]
    /\ Unmarked(after[i]) = incoming
    /\ ~Has(after[i], "_isNew")
    /\ \A f \in DOMAIN before[i] \ (DOMAIN incoming \cup Markers) : ~Has(after[i], f)

InsertedInFront(before, after, incoming) ==
  findIndex(before, incoming["id"]) = 0 =>
    /\ Len(after) = Len(before) + 1
    /\ Unmarked(after[1]) = incoming
    /\ Has(after[1], "_isNew") /\ after[1]["_isNew"] = TRUE
    /\ \A j \in 1..Len(before) : after[j + 1] = before[j]

DataFields == {"status", "description", "memo"}

\* The records an arriving message carries, as the services map them.
Carried(op, payload) ==
  IF op \in {"invoiceMessage", "paymentMessage"}
  THEN IF op = "invoiceMessage" /\ payload["type"] = "invoice_update"
       THEN <<_mapInvoice(payload["data"])>>
       ELSE IF op = "paymentMessage" /\ payload["type"] = "payment_update"
            THEN <<_mapPayment(payload["data"])>>
            ELSE << >>
  ELSE IF ~payload["ok"] THEN << >>
       ELSE MapEach(payload["data"],
                    IF op = "invoicesResponse" THEN "invoice" ELSE "payment")

\* Last write wins per field: a property the message carries for a stored
\* record has the message's value, any other keeps the value it had.
FieldwiseLastWrite(before, after, carried) ==
  \A i \in 1..Len(after) :
    LET c == findIndex(carried, after[i]["id"])
        b == findIndex(before, after[i]["id"])
    IN \A f \in DataFields :
         IF c # 0 /\ Has(carried[c], f)
         THEN Same(after[i], carried[c], f)
         ELSE b # 0 => Same(after[i], before[b], f)

\* Last write wins per record: a stored record a message carries has
\* exactly the message's properties, one the message does not carry is as
\* it was.
RecordwiseLastWrite(before, after, carried) ==
  \A i \in 1..Len(after) :
    LET c == findIndex(carried, after[i]["id"])
        b == findIndex(before, after[i]["id"])
    IN IF c # 0
       THEN \A f \in DataFields : Same(after[i], carried[c], f)
       ELSE b # 0 /\ after[i] = before[b]

InvoiceArrivals == {"invoiceMessage", "invoicesResponse"}
PaymentArrivals == {"paymentMessage", "paymentsResponse"}

TicksPerDay == 2
Instant(day, tick) == day * TicksPerDay + tick
LastTick == TicksPerDay - 1

\* date.setHours(0, 0, 0, 0): the first instant of the date's local day.
setHours_0_0_0_0(date) == Instant(date \div TicksPerDay, 0)
\* date.setHours(23, 59, 59, 999): the last instant of the date's local day.
setHours_23_59_59_999(date) == Instant(date \div TicksPerDay, LastTick)

\* String.prototype.toLowerCase, on the letters the inputs use.
LowerOf(ch) ==
  CASE ch = "C" -> "c"
    [] ch = "O" -> "o"
    [] OTHER -> ch
toLowerCase(text) == [i \in 1..Len(text) |-> LowerOf(text[i])]

\* String.prototype.includes
includes(text, part) ==
  \E i \in 0..(Len(text) - Len(part)) : SubSeq(text, i + 1, i + Len(part)) = part

\* ------------------------------------------------------ sort by created_at
\* Faulty variant: the comparator puts the oldest record first.
byRecency_oldestFirst(a, b) == a["created_at"] - b["created_at"]
\* The comparator (a, b) => new Date(b.created_at) - new Date(a.created_at).
byRecency(a, b) == b["created_at"] - a["created_at"]

RECURSIVE InsertSorted(_, _)
\* x goes behind every element the comparator does not put after it.
InsertSorted(sorted, x) ==
  IF sorted = << >> THEN <<x>>
  ELSE IF byRecency(Head(sorted), x) <= 0
       THEN <<Head(sorted)>> \o InsertSorted(Tail(sorted), x)
       ELSE <<x>> \o sorted

RECURSIVE sort(_)
\* Array.prototype.sort with that comparator: a stable sort.
sort(list) ==
  IF list = << >> THEN << >>
  ELSE InsertSorted(sort(SubSeq(list, 1, Len(list) - 1)), list[Len(list)])

\* ------------------------------------------------------- the combined view
\* taprootStore.getters.combinedTransactions: the records held in state,
\* invoices first, sorted; the getter maps nothing.
combinedTransactions(st) == sort(st.invoices \o st.payments)

RECURSIVE MapTransactions(_, _)
\* list.map(x => this.mapTransaction(x, type))
MapTransactions(list, type) ==
  IF list = << >> THEN << >>
  ELSE <<mapTransaction(Head(list), type)>> \o MapTransactions(Tail(list), type)

RECURSIVE MapSources(_, _)
\* The list that was passed to that map, as the calls leave its records.
MapSources(list, type) ==
  IF list = << >> THEN << >>
  ELSE <<mapTransaction_source(Head(list), type)>> \o MapSources(Tail(list), type)

\* DataUtils.combineTransactions: mapped copies of the records, sorted.
combineTransactions(invoiceList, paymentList) ==
  sort(MapTransactions(invoiceList, "invoice") \o MapTransactions(paymentList, "payment"))

\* ------------------------------------------------------------- the filters
\* The four passes are written alike in DataUtils.filterTransactions and in
\* the store's filteredTransactions getter; each pass runs only when its
\* filter is active.
byDirection(result, direction) ==
  LET keep(tx) == Get(tx, "direction") = direction
  IN IF Truthy(direction) /\ direction # "all" THEN SelectSeq(result, keep)
     ELSE result

\* Faulty variant: the status pass runs for every status, 'all' included.
byStatus_alsoForAll(result, status) ==
  LET keep(tx) == Get(tx, "status") = status
  IN IF Truthy(status) THEN SelectSeq(result, keep) ELSE result
byStatus(result, status) ==
  LET keep(tx) == Get(tx, "status") = status
  IN IF Truthy(status) /\ status # "all" THEN SelectSeq(result, keep)
     ELSE result

bySearchText(result, searchText) ==
  LET searchLower == toLowerCase(searchText)
      keep(tx) ==
        \/ HasText(tx, "memo") /\ includes(toLowerCase(tx["memo"]), searchLower)
        \/ /\ HasText(tx, "payment_hash")
           /\ includes(toLowerCase(tx["payment_hash"]), searchLower)
  IN IF searchText # << >> THEN SelectSeq(result, keep) ELSE result

\* Faulty variant: the end of the range is compared as picked, without
\* moving it to the end of its day.
byDateRange_rawEnd(result, from, to) ==
  LET keep(tx) ==
        LET txDate == tx["created_at"]
            matches == IF from # NoDate
                       THEN ~(txDate < setHours_0_0_0_0(from))
                       ELSE TRUE
        IN IF matches /\ to # NoDate THEN ~(txDate > to) ELSE matches
  IN IF from # NoDate \/ to # NoDate THEN SelectSeq(result, keep) ELSE result
byDateRange(result, from, to) ==
  LET keep(tx) ==
        LET txDate == tx["created_at"]
            matches == IF from # NoDate
                       THEN ~(txDate < setHours_0_0_0_0(from))
                       ELSE TRUE
        IN IF matches /\ to # NoDate
           THEN ~(txDate > setHours_23_59_59_999(to))
           ELSE matches
  IN IF from # NoDate \/ to # NoDate THEN SelectSeq(result, keep) ELSE result

\* Faulty variant: the search text is not applied.
filterTransactions_skipsSearch(transactions, flt, searchData, dateRange) ==
  byDateRange(
    byStatus(byDirection(transactions, flt["direction"]), flt["status"]),
    dateRange["from"], dateRange["to"])

\* DataUtils.filterTransactions(transactions, filters, searchData, dateRange)
filterTransactions(transactions, flt, searchData, dateRange) ==
  byDateRange(
    bySearchText(
      byStatus(byDirection(transactions, flt["direction"]), flt["status"]),
      searchData["searchText"]),
    dateRange["from"], dateRange["to"])

\* taprootStore.getters.filteredTransactions
filteredTransactions(st) ==
  LET combined == combinedTransactions(st)
  IN IF Len(combined) = 0 THEN << >>
     ELSE byDateRange(
            bySearchText(
              byStatus(byDirection(combined, st.filters["direction"]),
                       st.filters["status"]),
              st.filters["searchText"]),
            st.filters["dateFrom"], st.filters["dateTo"])

\* The page's applyFilters, on the list its combineTransactions has just
\* built.  The page holds the lists the services returned and its own filter
\* fields: filters {direction, status, searchText} and searchDate {from, to};
\* here they are read from the store's fields of the same content.
applyFilters(st) ==
  filterTransactions(
    combineTransactions(st.invoices, st.payments),
    [direction |-> st.filters["direction"], status |-> st.filters["status"],
     searchText |-> st.filters["searchText"]],
    [searchText |-> st.filters["searchText"]],
    [from |-> st.filters["dateFrom"], to |-> st.filters["dateTo"]])

\* taprootStore.actions, filters
setFilter(st, key, value) ==
  IF key \in DOMAIN st.filters THEN [st EXCEPT !.filters[key] = value] ELSE st
setDateFilter(st, from, to) ==
  [st EXCEPT !.filters["dateFrom"] = from, !.filters["dateTo"] = to]
resetFilters(st) == [st EXCEPT !.filters = defaultFilters]

\* The page's combineTransactions(): the view is rebuilt from the lists; what
\* remains in state afterwards is what the mapping left of its arguments.
page_combineTransactions(st) ==
  [st EXCEPT !.invoices = MapSources(st.invoices, "invoice"),
             !.payments = MapSources(st.payments, "payment")]

\* ----------------------------------------------- the views' specification
\* The lists the services have stored: at most two invoices and one payment,
\* created late on day 1 or early on day 2.
CreatedAts == {Instant(1, LastTick), Instant(2, 0)}

ViewRecords(id, statuses, texts) ==
  {Spread([id |-> id, status |-> x, created_at |-> c], t) :
     x \in statuses, c \in CreatedAts, t \in texts}

\* An invoice comes with its asset amount and either a description or a
\* payment hash; a payment with a memo, with or without a payment hash.
ViewInvoiceData(id) ==
  ViewRecords(id, InvoiceStatuses,
              {[asset_amount |-> 5, description |-> <<"C", "o">>],
               [asset_amount |-> 5, payment_hash |-> <<"b">>]})
ViewPaymentData(id) ==
  ViewRecords(id, PaymentStatuses,
              {[memo |-> <<"b">>], [memo |-> <<"b">>, payment_hash |-> <<"O">>]})

ViewInvoices ==
  {MapEach(l, "invoice") :
     l \in {<< >>} \cup {<<x>> : x \in ViewInvoiceData("a")}
             \cup {<<x, y>> : x \in ViewInvoiceData("a"), y \in ViewInvoiceData("b")}}
ViewPayments ==
  {MapEach(l, "payment") : l \in {<< >>} \cup {<<x>> : x \in ViewPaymentData("p")}}

\* What the user can choose in the filter controls.
Directions == {"all", "incoming", "outgoing"}
StatusChoices == {"all", "paid"}
SearchTexts == {<< >>, <<"O">>}
PickedFrom == {NoDate, Instant(2, LastTick)}
PickedTo == {NoDate, Instant(1, 0), Instant(2, 0)}

ViewInit ==
  /\ connections = InitState.connections
  /\ orphans = InitState.orphans
  /\ reconnectAttempts = InitState.reconnectAttempts
  /\ reconnectTimeout = InitState.reconnectTimeout
  /\ timers = InitState.timers
  /\ fallbackPolling = InitState.fallbackPolling
  /\ pollingInterval = InitState.pollingInterval
  /\ intervals = InitState.intervals
  /\ connected = InitState.connected
  /\ userId = InitState.userId
  /\ wsRequests = InitState.wsRequests
  /\ websocketStatus = InitState.websocketStatus
  /\ ctorThrows = FALSE
  /\ lastOp = "none"
  /\ page = InitPage
  /\ invoices \in ViewInvoices
  /\ payments \in ViewPayments
  /\ currentWallet = FALSE
  /\ filters = defaultFilters
  /\ issued = {}
  /\ inflight = [k \in ListKinds |-> 0]
  /\ arg = << >>
  /\ pushedSince = "none"

SetFilter ==
  \/ \E d \in Directions :
       ApplyStore(setFilter(Fresh, "direction", d), "setFilter", << >>)
  \/ \E x \in StatusChoices :
       ApplyStore(setFilter(Fresh, "status", x), "setFilter", << >>)
  \/ \E t \in SearchTexts :
       ApplyStore(setFilter(Fresh, "searchText", t), "setFilter", << >>)
  \/ ApplyStore(setFilter(Fresh, "sortBy", "date"), "setFilter", << >>)

SetDateFilter ==
  \E from \in PickedFrom, to \in PickedTo :
    ApplyStore(setDateFilter(Fresh, from, to), "setDateFilter", << >>)

ResetFilters == ApplyStore(resetFilters(Fresh), "resetFilters", << >>)

CombineTransactions ==
  ApplyStore(page_combineTransactions(Fresh), "combineTransactions", << >>)

ViewNext == SetFilter \/ SetDateFilter \/ ResetFilters \/ CombineTransactions

ViewSpec == ViewInit /\ [][ViewNext]_vars

\* ------------------------------------------------------------ C18 .. C20
\* The local calendar day an instant falls on.
DayOf(instant) == instant \div TicksPerDay

\* text contains part, letter case left aside.
ContainsIgnoringCase(text, part) ==
  \E i \in 1..Len(text), j \in 1..Len(text) :
    i <= j /\ toLowerCase(SubSeq(text, i, j)) = toLowerCase(part)

\* tx satisfies every active filter of f at once.
Satisfies(tx, f) ==
  /\ f["direction"] # "all" => Get(tx, "direction") = f["direction"]
  /\ f["status"] # "all" => Get(tx, "status") = f["status"]
  /\ f["searchText"] # << >> =>
       \/ Has(tx, "memo") /\ ContainsIgnoringCase(tx["memo"], f["searchText"])
       \/ /\ Has(tx, "payment_hash")
          /\ ContainsIgnoringCase(tx["payment_hash"], f["searchText"])
  /\ f["dateFrom"] # NoDate => DayOf(tx["created_at"]) >= DayOf(f["dateFrom"])
  /\ f["dateTo"] # NoDate => DayOf(tx["created_at"]) <= DayOf(f["dateTo"])

\* The transactions of list that satisfy f, in the order list has them.
Selected(list, f) ==
  LET test(tx) == Satisfies(tx, f) IN SelectSeq(list, test)

\* C18: the filtered list holds exactly the combined transactions that
\* satisfy every active filter at once (direction, status, case-insensitive
\* search in memo or payment_hash, created_at within the inclusive range of
\* calendar days), in the order the combined list has them; for the store's
\* getter and for the page's applyFilters alike.
C18_FilterIsConjunction ==
  /\ filteredTransactions(Store) = Selected(combinedTransactions(Store), filters)
  /\ applyFilters(Store) = Selected(combineTransactions(invoices, payments), filters)

\* All four filters are active and they keep some transactions, not all.
C18_Witness ==
  /\ lastOp \in {"setFilter", "setDateFilter"}
  /\ filters["direction"] # "all"
  /\ filters["status"] # "all"
  /\ filters["searchText"] # << >>
  /\ filters["dateFrom"] # NoDate
  /\ filters["dateTo"] # NoDate
  /\ Len(filteredTransactions(Store)) > 0
  /\ Len(filteredTransactions(Store)) < Len(combinedTransactions(Store))

\* C19: with the empty filter set (direction 'all', status 'all', no search
\* text, no date range) filtering returns its input unchanged: the same
\* elements in the same order, whether the input is sorted or not.
C19_EmptyFiltersAreIdentity ==
  filters = defaultFilters =>
    /\ filteredTransactions(Store) = combinedTransactions(Store)
    /\ applyFilters(Store) = combineTransactions(invoices, payments)
    /\ filterTransactions(invoices \o payments, filters,
                          [searchText |-> filters["searchText"]],
                          [from |-> filters["dateFrom"], to |-> filters["dateTo"]])
         = invoices \o payments

\* The filters have been reset over three transactions.
C19_Witness ==
  /\ lastOp = "resetFilters"
  /\ filters = defaultFilters
  /\ Len(filteredTransactions(Store)) = Len(invoices) + Len(payments)
  /\ Len(invoices) > 1
  /\ Len(payments) > 0

\* How often record r occurs in list.
Count(list, r) == Cardinality({i \in 1..Len(list) : list[i] = r})

\* a holds the elements of b, each as often as b does.
IsPermutation(a, b) ==
  /\ Len(a) = Len(b)
  /\ \A i \in 1..Len(b) : Count(a, b[i]) = Count(b, b[i])

MostRecentFirst(list) ==
  \A i \in 1..Len(list), j \in 1..Len(list) :
    i < j => list[i]["created_at"] >= list[j]["created_at"]

\* In view, what is an invoice in state is incoming and what is a payment in
\* state is outgoing.
DirectionsByOrigin(view) ==
  \A i \in 1..Len(view) :
    /\ findIndex(invoices, view[i]["id"]) # 0 => Get(view[i], "direction") = "incoming"
    /\ findIndex(payments, view[i]["id"]) # 0 => Get(view[i], "direction") = "outgoing"

\* A record without its extra.  DataUtils.combineTransactions returns mapped
\* copies, and the extra of a payment's copy is built anew from the record.
WithoutExtra(r) == [f \in DOMAIN r \ {"extra"} |-> r[f]]
WithoutExtras(list) == [i \in 1..Len(list) |-> WithoutExtra(list[i])]

CombinedViewAsClaimed ==
  LET stored == invoices \o payments
      getter == combinedTransactions(Store)
      built == combineTransactions(invoices, payments)
  IN /\ IsPermutation(getter, stored)
     /\ MostRecentFirst(getter)
     /\ DirectionsByOrigin(getter)
     /\ IsPermutation(WithoutExtras(built), WithoutExtras(stored))
     /\ MostRecentFirst(built)
     /\ DirectionsByOrigin(built)

\* C20: the combined view (the store's getter, and the list the page builds
\* with DataUtils.combineTransactions, whose elements are mapped copies) is a
\* permutation of the invoices followed by the payments, most recent
\* created_at first, every invoice incoming and every payment outgoing; and
\* building it leaves the invoices and payments in state as they were.
C20_CombinedViewIsSortedProjection ==
  /\ []CombinedViewAsClaimed
  /\ [][lastOp' = "combineTransactions"
          => invoices' = invoices /\ payments' = payments]_vars

\* The view has been built over two invoices and a payment, and the payment,
\* last in state, comes first in it.
C20_Witness ==
  /\ lastOp = "combineTransactions"
  /\ Len(invoices) > 1
  /\ Len(payments) > 0
  /\ combinedTransactions(Store)[1]["id"] = payments[1]["id"]
  /\ combineTransactions(invoices, payments)[1]["id"] = payments[1]["id"]

\* -------------------------------------------------------------------- C30
\* C30: a close or error event delivered late by a socket the manager no
\* longer tracks (replaced by connect() or discarded by closeAll()) leaves the
\* manager as it was: the tracked connections stay, the retry counter does
\* not grow, and no reconnect timer or polling interval is started.
C30_StaleEventsAreIgnored ==
  [][lastOp' \in {"staleClose", "staleError"} =>
       /\ connections' = connections
       /\ reconnectAttempts' = reconnectAttempts
       /\ reconnectTimeout' = reconnectTimeout
       /\ timers' = timers
       /\ fallbackPolling' = fallbackPolling
       /\ intervals' = intervals]_vars

\* ========================================================== the CSV export
\* A value of a row or of a form: a number, or a text.
Num(n) == [num |-> n]
Str(t) == [text |-> t]

DecimalDigits == <<"0", "1", "2", "3", "4", "5", "6", "7", "8", "9">>

RECURSIVE NumberToString(_)
\* Number.prototype.toString, for a natural number.
NumberToString(n) ==
  IF n < Len(DecimalDigits) THEN <<DecimalDigits[n + 1]>>
  ELSE NumberToString(n \div Len(DecimalDigits))
         \o <<DecimalDigits[(n % Len(DecimalDigits)) + 1]>>

\* value.toString()
toString(value) ==
  IF Has(value, "num") THEN NumberToString(value["num"]) ELSE value["text"]

\* An object whose key order matters is a sequence of fields {name, value}.
\* Object.keys(row)
ObjectKeys(row) == [i \in 1..Len(row) |-> row[i]["name"]]
HasKey(row, name) == \E i \in 1..Len(row) : row[i]["name"] = name
\* row[name]
Lookup(row, name) == row[CHOOSE i \in 1..Len(row) : row[i]["name"] = name]["value"]

RECURSIVE join(_, _)
\* Array.prototype.join
join(texts, separator) ==
  IF texts = << >> THEN << >>
  ELSE IF Len(texts) = 1 THEN texts[1]
       ELSE texts[1] \o separator \o join(Tail(texts), separator)

Comma == <<",">>
Quote == <<"\"">>
LineBreak == <<"\n">>

RECURSIVE DoubleQuotes(_)
\* value.replace(/"/g, '""')
DoubleQuotes(value) ==
  IF value = << >> THEN << >>
  ELSE (IF <<Head(value)>> = Quote THEN Quote \o Quote ELSE <<Head(value)>>)
         \o DoubleQuotes(Tail(value))

\* Faulty variant: the value is wrapped but its quotes are not doubled.
csvValue_quotesNotDoubled(row, header) ==
  LET value == IF HasKey(row, header) THEN toString(Lookup(row, header)) ELSE << >>
  IN IF includes(value, Comma) \/ includes(value, Quote) \/ includes(value, LineBreak)
     THEN Quote \o value \o Quote
     ELSE value
\* One cell: the callback of headers.map in downloadCSV.
csvValue(row, header) ==
  LET value == IF HasKey(row, header) THEN toString(Lookup(row, header)) ELSE << >>
  IN IF includes(value, Comma) \/ includes(value, Quote) \/ includes(value, LineBreak)
     THEN Quote \o DoubleQuotes(value) \o Quote
     ELSE value

RECURSIVE csvRows(_, _)
\* rows.forEach(row => csvContent += csvRow.join(',') + '\n')
csvRows(rows, headers) ==
  IF rows = << >> THEN << >>
  ELSE join([j \in 1..Len(headers) |-> csvValue(Head(rows), headers[j])], Comma)
         \o LineBreak \o csvRows(Tail(rows), headers)

\* DataUtils.downloadCSV: what it returns and, when a file is offered for
\* download, the file's content.
downloadCSV(rows) ==
  IF Len(rows) = 0 THEN [returned |-> FALSE]
  ELSE LET headers == ObjectKeys(rows[1])
       IN [returned |-> TRUE,
           file |-> join(headers, Comma) \o LineBreak \o csvRows(rows, headers)]

\* ------------------------------------------------ the export's specification
\* The manager and the store before anything has happened on the page.
ManagerAtRest ==
  /\ connections = InitState.connections
  /\ orphans = InitState.orphans
  /\ reconnectAttempts = InitState.reconnectAttempts
  /\ reconnectTimeout = InitState.reconnectTimeout
  /\ timers = InitState.timers
  /\ fallbackPolling = InitState.fallbackPolling
  /\ pollingInterval = InitState.pollingInterval
  /\ intervals = InitState.intervals
  /\ connected = InitState.connected
  /\ userId = InitState.userId
  /\ wsRequests = InitState.wsRequests
  /\ websocketStatus = InitState.websocketStatus
  /\ ctorThrows = FALSE
  /\ lastOp = "none"

StoreAtRest ==
  /\ invoices = << >>
  /\ payments = << >>
  /\ currentWallet = FALSE
  /\ filters = defaultFilters
  /\ issued = {}
  /\ inflight = [k \in ListKinds |-> 0]
  /\ pushedSince = "none"

\* The texts a cell can hold: up to two characters, with the characters CSV
\* gives a meaning to among them.
CsvChars == {"a", ",", "\"", "\n"}
CsvTexts == {<< >>} \cup {<<c>> : c \in CsvChars} \cup {<<c, d>> : c \in CsvChars, d \in CsvChars}

Field(name, value) == [name |-> <<name>>, value |-> value]

\* Rows as the page's export functions build them: the first row sets the
\* columns; a later row of the detailed export has the same fields, or (an
\* outgoing transaction after an incoming one) lacks one and adds another.
CsvFirstRows ==
  {<<Field("description", Str(t)), Field("amount", a)>> :
     t \in CsvTexts, a \in {Num(10), Str(<< >>)}}
CsvLaterRows ==
  {<<Field("description", Str(t)), Field("amount", Num(10))>> : t \in CsvTexts}
    \cup {<<Field("description", Str(t)), Field("fee_sats", Num(2))>> : t \in CsvTexts}
CsvInputs ==
  {<< >>} \cup {<<r>> : r \in CsvFirstRows}
    \cup {<<r, q>> : r \in CsvFirstRows, q \in CsvLaterRows}

CsvInit ==
  /\ ManagerAtRest
  /\ StoreAtRest
  /\ page = InitPage
  /\ arg \in {[rows |-> r] : r \in CsvInputs}

\* exportTransactionsCSV / exportTransactionsCSVWithDetails hand their rows
\* to DataUtils.downloadCSV.
ExportCSV ==
  /\ ~Has(arg, "download")
  /\ arg' = Assign(arg, "download", downloadCSV(arg["rows"]))
  /\ lastOp' = "downloadCSV"
  /\ UNCHANGED <<managerVars, invoices, payments, currentWallet, filters, issued,
                 inflight, pushedSince, page>>

CsvSpec == CsvInit /\ [][ExportCSV]_vars

\* -------------------------------------------------------------------- C28
RECURSIVE SplitLines(_, _)
\* The lines of text: the pieces between its line breaks, current being the
\* piece read so far.
SplitLines(text, current) ==
  IF text = << >> THEN <<current>>
  ELSE IF <<Head(text)>> = LineBreak
       THEN <<current>> \o SplitLines(Tail(text), << >>)
       ELSE SplitLines(Tail(text), current \o <<Head(text)>>)

RECURSIVE SplitRecords(_, _, _)
\* The same, but a line break between an opening and a closing quote belongs
\* to the piece.
SplitRecords(text, current, quoted) ==
  IF text = << >> THEN <<current>>
  ELSE IF <<Head(text)>> = LineBreak /\ ~quoted
       THEN <<current>> \o SplitRecords(Tail(text), << >>, FALSE)
       ELSE SplitRecords(Tail(text), current \o <<Head(text)>>,
                         IF <<Head(text)>> = Quote THEN ~quoted ELSE quoted)

\* The text of row's value under header; nothing when the row has none.
ValueText(row, header) ==
  IF HasKey(row, header)
  THEN LET v == Lookup(row, header)
       IN IF Has(v, "num") THEN NumberToString(v["num"]) ELSE v["text"]
  ELSE << >>

\* value between double quotes, each of its own quotes written twice.
Wrapped(value) ==
  Quote \o join([i \in 1..Len(value) |->
                   IF <<value[i]>> = Quote THEN Quote \o Quote ELSE <<value[i]>>],
                << >>)
         \o Quote

Holds(value, chars) == \E i \in 1..Len(value) : value[i] \in chars

\* The content the export is to have: the names of the first row's fields,
\* then each row's values in that order, the values holding one of special
\* wrapped; each of these pieces joined by commas.
ExpectedPieces(rows, special) ==
  LET names == [j \in 1..Len(rows[1]) |-> rows[1][j]["name"]]
      cell(row, name) == IF Holds(ValueText(row, name), special)
                         THEN Wrapped(ValueText(row, name))
                         ELSE ValueText(row, name)
  IN <<join(names, Comma)>>
       \o [i \in 1..Len(rows) |->
             join([j \in 1..Len(names) |-> cell(rows[i], names[j])], Comma)]

\* C28 as claimed: for a non-empty list of rows the content's first line is
\* the comma-joined field names of the first row and each following line the
\* comma-joined values of the corresponding row, a value holding a comma or
\* a double quote being wrapped in double quotes with its quotes doubled; an
\* empty list produces no file and returns false.
C28_LinesWrapCommaAndQuote ==
  Has(arg, "download") =>
    IF arg["rows"] = << >>
    THEN arg["download"] = [returned |-> FALSE]
    ELSE /\ arg["download"]["returned"]
         /\ SplitLines(arg["download"]["file"], << >>)
              = ExpectedPieces(arg["rows"], {",", "\""}) \o << << >> >>

\* C28, amended: a value holding a comma, a double quote or a line break is
\* wrapped, and the content is the header line followed by one record per
\* row, each ended by a line break, a line break inside a wrapped value
\* being part of its record.
C28_RecordsWrapCommaQuoteAndLineBreak ==
  Has(arg, "download") =>
    IF arg["rows"] = << >>
    THEN arg["download"] = [returned |-> FALSE]
    ELSE /\ arg["download"]["returned"]
         /\ SplitRecords(arg["download"]["file"], << >>, FALSE)
              = ExpectedPieces(arg["rows"], {",", "\"", "\n"}) \o << << >> >>

\* Two rows have been exported, one with a value holding a quote and a comma,
\* the other with a value holding a line break, and the second lacks a column.
C28_Witness ==
  /\ lastOp = "downloadCSV"
  /\ Len(arg["rows"]) = 2
  /\ ValueText(arg["rows"][1], <<"description">>) = <<"\"", ",">>
  /\ Holds(ValueText(arg["rows"][2], <<"description">>), {"\n"})
  /\ ~HasKey(arg["rows"][2], <<"amount">>)
  /\ arg["download"]["returned"]

\* ================================================================ the page
\* ------------------------------------------------------ numbers and texts
\* What parseFloat gives for a text that does not start with a number.
NaN == [nan |-> TRUE]
IsNaN(v) == Has(v, "nan")

IsDigit(c) == \E d \in 1..Len(DecimalDigits) : DecimalDigits[d] = c
DigitValue(c) == (CHOOSE d \in 1..Len(DecimalDigits) : DecimalDigits[d] = c) - 1

RECURSIVE LeadingNumber(_, _)
\* The number the leading digits of text spell, n being the value of the
\* digits read so far.
LeadingNumber(text, n) ==
  IF text # << >> /\ IsDigit(Head(text))
  THEN LeadingNumber(Tail(text), n * Len(DecimalDigits) + DigitValue(Head(text)))
  ELSE n

RECURSIVE trimStart(_)
trimStart(text) ==
  IF text # << >> /\ Head(text) = " " THEN trimStart(Tail(text)) ELSE text

RECURSIVE trimEnd(_)
trimEnd(text) ==
  IF text # << >> /\ text[Len(text)] = " "
  THEN trimEnd(SubSeq(text, 1, Len(text) - 1))
  ELSE text

\* String.prototype.trim
trim(text) == trimEnd(trimStart(text))

\* parseFloat(value): the value is turned into a string, leading blanks are
\* skipped and the leading digits read; NaN when there are none.
parseFloat(value) ==
  LET text == trimStart(toString(value)) IN
  IF text # << >> /\ IsDigit(Head(text)) THEN Num(LeadingNumber(text, 0)) ELSE NaN

\* a - b and a <= b on numbers that may be NaN
Minus(a, b) == IF IsNaN(a) \/ IsNaN(b) THEN NaN ELSE Num(a["num"] - b["num"])
AtMost(a, b) == ~IsNaN(a) /\ ~IsNaN(b) /\ a["num"] <= b["num"]

\* ------------------------------------------------------------ AssetService
\* Faulty variant: the channel's capacity alone is the ceiling.
getMaxReceivableAmount_capacityOnly(asset) ==
  IF IsNull(asset) \/ ~Has(asset, "channel_info") THEN Num(0)
  ELSE parseFloat(asset["channel_info"]["capacity"])

\* AssetService.getMaxReceivableAmount
getMaxReceivableAmount(asset) ==
  IF IsNull(asset) \/ ~Has(asset, "channel_info") THEN Num(0)
  ELSE LET channelInfo == asset["channel_info"] IN
       IF Has(channelInfo, "capacity") /\ Has(channelInfo, "local_balance")
       THEN Minus(parseFloat(channelInfo["capacity"]),
                  parseFloat(channelInfo["local_balance"]))
       ELSE Num(0)

\* ------------------------------------------------- the page's computed values
maxInvoiceAmount(p) ==
  IF IsNull(p.invoiceDialog.selectedAsset) THEN Num(0)
  ELSE getMaxReceivableAmount(p.invoiceDialog.selectedAsset)

isInvoiceAmountValid(p) ==
  IF IsNull(p.invoiceDialog.selectedAsset) THEN FALSE
  ELSE AtMost(parseFloat(p.invoiceDialog.form.amount), maxInvoiceAmount(p))

canPay(p) ==
  IF IsNull(p.parseDialog.invoice) \/ IsNull(p.paymentDialog.selectedAsset) THEN FALSE
  ELSE p.parseDialog.invoice.amount <= p.paymentDialog.selectedAsset.user_balance

\* ------------------------------------------------- what the backend lists
AssetA ==
  [asset_id |-> "A", user_balance |-> 5,
   channel_info |-> [capacity |-> Num(1000), local_balance |-> Num(400), active |-> TRUE]]
AssetB ==
  [asset_id |-> "B", user_balance |-> 5,
   channel_info |-> [capacity |-> Num(10), local_balance |-> Num(0), active |-> FALSE]]
AssetC == [asset_id |-> "C", user_balance |-> 0]
ListedAssets == {<<AssetA, AssetB, AssetC>>}

\* ------------------------------------------------------- the page's handlers
\* A handler works on the page and the store's two collections.
World == [page |-> page, invoices |-> invoices, payments |-> payments]

\* A handler starts: nothing sent or shown yet in this step.
Begin(w) == [w EXCEPT !.page.calls = {}, !.page.notice = << >>]

\* LNbits.api.request: the request is sent and its response awaited.
Issue(w, call) ==
  [w EXCEPT !.page.calls = @ \cup {call}, !.page.pending = @ \cup {call}]

Call(flow, endpoint, request, asset, amount) ==
  [flow |-> flow, endpoint |-> endpoint, request |-> request, asset |-> asset,
   amount |-> amount]

\* NotificationService.showError and its siblings; a message is the sequence
\* of its words.
Notify(w, message) == [w EXCEPT !.page.notice = message]

hasWallets(p) == p.wallets # "none"
hasAdminKey(p) == p.wallets = "ok"

\* this.assets
Assets(p) == IF p.assetsFromStore THEN p.storeAssets ELSE << >>

\* getAssets up to its await; AssetService.getAssets gives [] at once for a
\* wallet without admin key. The assets and their balances are fetched by
\* two requests in a row, followed here as one.
getAssets(w) ==
  IF ~hasWallets(w.page) \/ w.page.isRefreshing THEN w
  ELSE IF ~hasAdminKey(w.page)
       THEN [w EXCEPT !.page.assetsFromStore = FALSE, !.page.isRefreshing = FALSE]
       ELSE Issue([w EXCEPT !.page.isRefreshing = TRUE],
                  Call("getAssets", "GET listassets", << >>, Null, Null))

\* getAssets from its await on: response holds the assets listed, or the
\* detail of a refusal.
getAssets_resume(w, response) ==
  IF Has(response, "data")
  THEN [w EXCEPT !.page.storeAssets = response["data"],
                 !.page.assetsFromStore = TRUE, !.page.isRefreshing = FALSE]
  ELSE [w EXCEPT !.page.assetsFromStore = FALSE, !.page.isRefreshing = FALSE]

resetInvoiceForm(w) ==
  [w EXCEPT !.page.invoiceDialog.form = [amount |-> Num(1)],
            !.page.isSubmitting = FALSE]

\* openInvoiceDialog(asset); reading asset.channel_info.capacity throws for an
\* asset without channel_info, before anything is done.
openInvoiceDialog(w, asset) ==
  IF ~Has(asset, "channel_info") THEN w
  ELSE LET refreshing == getAssets(w) IN
       IF asset["channel_info"]["active"] = FALSE
       THEN Notify(refreshing, <<"Cannot", "create", "invoice", "for", "inactive", "channel">>)
       ELSE [resetInvoiceForm(refreshing) EXCEPT
               !.page.invoiceDialog.selectedAsset = asset]

\* InvoiceService.createInvoice up to its await: "thrown" with the error's
\* message, or the world with the request sent.
InvoiceService_createInvoice(w, assetData, invoiceData) ==
  IF ~hasAdminKey(w.page) THEN [thrown |-> <<"Valid", "wallet", "is", "required">>]
  ELSE IF IsNull(assetData) \/ ~Truthy(Get(assetData, "asset_id"))
       THEN [thrown |-> <<"Valid", "asset", "data", "is", "required">>]
       ELSE [sent |-> Issue(w, Call("createInvoice", "POST invoice", << >>,
                                    assetData, parseFloat(invoiceData.amount)))]

\* submitInvoiceForm up to its await; a failure before the request runs the
\* catch and the finally blocks in the same step.
submitInvoiceForm(w) ==
  IF w.page.isSubmitting \/ ~hasWallets(w.page) THEN w
  ELSE LET submitting == [w EXCEPT !.page.isSubmitting = TRUE]
           outcome == InvoiceService_createInvoice(
                        submitting, w.page.invoiceDialog.selectedAsset,
                        w.page.invoiceDialog.form)
       IN IF Has(outcome, "thrown")
          THEN [Notify(submitting, outcome["thrown"]) EXCEPT !.page.isSubmitting = FALSE]
          ELSE outcome["sent"]

\* The refresh of both transaction lists is sent; what its responses do to
\* the store is followed in StoreSpec.
refreshTransactions(w) ==
  IF ~hasAdminKey(w.page) THEN w
  ELSE [w EXCEPT !.page.calls = @ \cup
          {Call("getInvoices", "GET invoices", << >>, Null, Null),
           Call("getPayments", "GET payments", << >>, Null, Null)}]

\* NotificationService.processApiError for an error that carries the
\* response's detail or a message of its own.
processApiError(w, error) == Notify(w, error["message"])

isChannelDown(message) ==
  /\ includes(toLowerCase(message), <<"channel">>)
  /\ \/ includes(toLowerCase(message), <<"offline">>)
     \/ includes(toLowerCase(message), <<"unavailable">>)

\* An awaited response has arrived: its request is pending no more.
Settle(w, call) == [Begin(w) EXCEPT !.page.pending = @ \ {call}]

\* Faulty variant: the flag is reset on success only.
submitInvoiceForm_resume_noFinally(w, response) ==
  IF Has(response, "data")
  THEN [refreshTransactions(addInvoice(w, _mapInvoice(response["data"])))
          EXCEPT !.page.isSubmitting = FALSE]
  ELSE processApiError(w, [message |-> response["detail"]])

\* submitInvoiceForm from its await on, InvoiceService.createInvoice's rest
\* included. response holds the invoice created, or the detail of a refusal.
submitInvoiceForm_resume(w, response) ==
  LET done ==
        IF Has(response, "data")
        THEN refreshTransactions(addInvoice(w, _mapInvoice(response["data"])))
        ELSE LET shown == processApiError(w, [message |-> response["detail"]]) IN
             IF isChannelDown(response["detail"])
             THEN resetInvoiceForm(getAssets(shown))
             ELSE shown
  IN [done EXCEPT !.page.isSubmitting = FALSE]

\* --------------------------------------------------------- the pay dialogs
resetPaymentForm(w) ==
  [w EXCEPT !.page.paymentDialog.form = [paymentRequest |-> << >>],
            !.page.paymentDialog.inProgress = FALSE,
            !.page.paymentDialog.invoiceDecodeError = FALSE]

resetParseDialog(w) ==
  [w EXCEPT !.page.parseDialog = [invoice |-> Null, data |-> [request |-> << >>]]]

openPaymentDialog(w, asset) ==
  LET refreshing == getAssets(w) IN
  IF Has(asset, "channel_info") /\ asset["channel_info"]["active"] = FALSE
  THEN Notify(refreshing, <<"Cannot", "send", "payment", "from", "inactive", "channel">>)
  ELSE IF asset["user_balance"] <= 0
       THEN Notify(refreshing, <<"You", "have", "zero", "balance", "for", "this", "asset">>)
       ELSE [resetParseDialog(resetPaymentForm(refreshing)) EXCEPT
               !.page.paymentDialog.selectedAsset = asset]

\* PaymentService.parseInvoice up to its await
PaymentService_parseInvoice(w, paymentRequest) ==
  IF ~hasAdminKey(w.page) THEN [thrown |-> <<"Valid", "wallet", "is", "required">>]
  ELSE IF paymentRequest = << >> \/ trim(paymentRequest) = << >>
       THEN [thrown |-> <<"Payment", "request", "is", "required">>]
       ELSE [sent |-> Issue(w, Call("decodeInvoice", "GET parse-invoice",
                                    paymentRequest, Null, Null))]

\* decodeInvoice up to its await
decodeInvoice(w) ==
  LET request == w.page.parseDialog.data.request IN
  IF request = << >> \/ trim(request) = << >>
  THEN Notify(w, <<"Please", "enter", "an", "invoice">>)
  ELSE IF ~hasWallets(w.page) THEN w
       ELSE LET outcome == PaymentService_parseInvoice(w, request) IN
            IF Has(outcome, "thrown")
            THEN [Notify(w, <<"Invalid", "invoice", "format">>) EXCEPT
                    !.page.parseDialog.invoice = Null]
            ELSE outcome["sent"]

\* decodeInvoice from its await on; the request is read from the dialog again.
decodeInvoice_resume(w, response) ==
  IF Has(response, "data")
  THEN [w EXCEPT
          !.page.parseDialog.invoice =
             [amount |-> response["data"]["amount"],
              bolt11 |-> w.page.parseDialog.data.request],
          !.page.paymentDialog.form.paymentRequest = w.page.parseDialog.data.request]
  ELSE [Notify(w, <<"Invalid", "invoice", "format">>) EXCEPT
          !.page.parseDialog.invoice = Null]

\* ----------------------------------------------------------- PaymentService
\* PaymentService.payInvoice up to its await; flow names the handler that
\* awaits it. Reading assetData.asset_id throws when there is no asset.
PaymentService_payInvoice(w, flow, assetData, paymentRequest) ==
  IF ~hasAdminKey(w.page) THEN [thrown |-> <<"Valid", "wallet", "is", "required">>]
  ELSE IF paymentRequest = << >>
       THEN [thrown |-> <<"Payment", "request", "is", "required">>]
       ELSE IF IsNull(assetData)
            THEN [thrown |-> <<"Cannot", "read", "properties", "of", "null">>]
            ELSE [sent |-> Issue(w, Call(flow, "POST pay", paymentRequest,
                                         assetData, Null))]

\* array.findIndex(a => a.asset_id === assetId), 1-based, 0 for -1
findAsset(list, assetId) ==
  IF \E i \in 1..Len(list) : list[i]["asset_id"] = assetId
  THEN CHOOSE i \in 1..Len(list) :
         /\ list[i]["asset_id"] = assetId
         /\ \A j \in 1..(i - 1) : list[j]["asset_id"] # assetId
  ELSE 0

\* taprootStore.actions.updateAsset
updateAsset(w, assetId, changes) ==
  LET index == findAsset(w.page.storeAssets, assetId) IN
  IF index # 0
  THEN [w EXCEPT !.page.storeAssets[index] = Spread(@, changes)]
  ELSE w

\* Math.max(0, balance - amount)
BalanceAfter(balance, amount) == IF balance > amount THEN balance - amount ELSE 0

\* The payment record the services build from a pay response.
BuiltPayment(data, assetId) ==
  [id |-> data["payment_hash"], status |-> "completed",
   memo |-> IF HasText(data, "description") THEN data["description"] ELSE << >>,
   asset_id |-> assetId, asset_amount |-> data["asset_amount"]]

isInternalDetail(detail) ==
  \/ includes(detail, <<"internal", "payment">>)
  \/ includes(detail, <<"own", "invoice">>)

\* Faulty variant: a response without status counts as paid.
payInvoice_settled_missingStatusPaid(w, call, response) ==
  IF Has(response, "detail")
  THEN [world |-> w,
        thrown |-> [message |-> response["detail"],
                    isInternalPayment |-> isInternalDetail(response["detail"])]]
  ELSE LET data == response["data"] IN
       IF Get(data, "status") = "failed"
       THEN [world |-> w,
             thrown |-> [message |-> IF HasText(data, "error") THEN data["error"]
                                     ELSE <<"Payment", "failed">>,
                         isInternalPayment |-> FALSE]]
       ELSE [world |->
               addPayment(
                 updateAsset(w, call.asset["asset_id"],
                   [user_balance |-> BalanceAfter(call.asset["user_balance"],
                                                  data["asset_amount"])]),
                 _mapPayment(BuiltPayment(data, data["asset_id"])))]

\* PaymentService.payInvoice from its await on: the world it leaves, with
\* the error it throws when it throws one. response holds the data of an
\* answer or the detail of a refusal.
payInvoice_settled(w, call, response) ==
  IF Has(response, "detail")
  THEN [world |-> w,
        thrown |-> [message |-> IF isInternalDetail(response["detail"])
                                THEN <<"System", "will", "process", "it", "as",
                                       "an", "internal", "payment">>
                                ELSE response["detail"],
                    isInternalPayment |-> isInternalDetail(response["detail"])]]
  ELSE LET data == response["data"] IN
       IF ~Truthy(Get(data, "status")) \/ data["status"] = "failed"
       THEN [world |-> w,
             thrown |-> [message |-> IF HasText(data, "error") THEN data["error"]
                                     ELSE <<"Payment", "failed">>,
                         isInternalPayment |-> FALSE]]
       ELSE IF data["status"] = "success"
            THEN [world |->
                    addPayment(
                      IF Truthy(Get(data, "asset_id"))
                      THEN updateAsset(w, call.asset["asset_id"],
                             [user_balance |->
                                BalanceAfter(call.asset["user_balance"],
                                             data["asset_amount"])])
                      ELSE w,
                      _mapPayment(BuiltPayment(data,
                        IF Truthy(Get(data, "asset_id")) THEN data["asset_id"]
                        ELSE call.asset["asset_id"])))]
            ELSE [world |-> w]

\* PaymentService.processInternalPayment up to its await
PaymentService_processInternalPayment(w, paymentRequest, asset) ==
  IF ~hasAdminKey(w.page) THEN [thrown |-> <<"Valid", "wallet", "is", "required">>]
  ELSE IF paymentRequest = << >>
       THEN [thrown |-> <<"Payment", "request", "is", "required">>]
       ELSE [sent |-> Issue(w, Call("processInternalPayment", "POST pay",
                                    paymentRequest, asset, Null))]

\* ------------------------------------------------------ the page's pay flows
\* The page's processInternalPayment up to its await; when the service
\* throws at once, the catch and finally blocks run in the same step.
processInternalPayment(w, paymentRequest) ==
  IF ~hasWallets(w.page) THEN [w EXCEPT !.page.paymentDialog.inProgress = FALSE]
  ELSE LET started == [w EXCEPT !.page.paymentDialog.inProgress = TRUE]
           outcome == PaymentService_processInternalPayment(
                        started, paymentRequest, w.page.paymentDialog.selectedAsset)
       IN IF Has(outcome, "thrown")
          THEN [processApiError(started, [message |-> outcome["thrown"]])
                  EXCEPT !.page.paymentDialog.inProgress = FALSE]
          ELSE outcome["sent"]

\* processInternalPayment from its await on, the service's rest included:
\* the store is updated whatever status the answer carries. The finally
\* block of a submitPaymentForm that awaits it sets the same flag.
processInternalPayment_resume(w, response) ==
  LET done ==
        IF Has(response, "detail")
        THEN processApiError(w, [message |-> response["detail"]])
        ELSE LET data == response["data"]
                 index == IF Truthy(Get(data, "asset_id"))
                          THEN findAsset(w.page.storeAssets, data["asset_id"])
                          ELSE 0
                 updated ==
                   IF index # 0
                   THEN updateAsset(w, data["asset_id"],
                          [user_balance |->
                             BalanceAfter(w.page.storeAssets[index]["user_balance"],
                                          data["asset_amount"])])
                   ELSE w
             IN refreshTransactions(getAssets(
                  addPayment(updated,
                             _mapPayment(BuiltPayment(data, Get(data, "asset_id"))))))
  IN [done EXCEPT !.page.paymentDialog.inProgress = FALSE]

\* The catch block shared by payInvoice and submitPaymentForm; paymentRequest
\* is what the handler reads from its dialog at that moment, null when the
\* dialog holds no invoice any more.
paymentFailed(w, error, paymentRequest) ==
  IF error.isInternalPayment
  THEN IF IsNull(paymentRequest)
       THEN processApiError(w, [message |-> <<"Cannot", "read", "properties", "of", "null">>])
       ELSE processInternalPayment(Notify(w, error.message), paymentRequest["text"])
  ELSE LET shown == processApiError(w, error) IN
       IF isChannelDown(error.message) THEN getAssets(shown) ELSE shown

\* The page's payInvoice up to its await
payInvoice(w) ==
  IF IsNull(w.page.parseDialog.invoice) \/ IsNull(w.page.paymentDialog.selectedAsset)
  THEN Notify(w, <<"Missing", "invoice", "or", "asset", "information">>)
  ELSE IF ~hasWallets(w.page) THEN w
       ELSE LET outcome == PaymentService_payInvoice(
                             w, "payInvoice", w.page.paymentDialog.selectedAsset,
                             w.page.parseDialog.invoice.bolt11)
            IN IF Has(outcome, "thrown")
               THEN processApiError(w, [message |-> outcome["thrown"]])
               ELSE outcome["sent"]

\* The page's payInvoice from its await on
payInvoice_resume(w, call, response) ==
  LET settled == payInvoice_settled(w, call, response) IN
  IF Has(settled, "thrown")
  THEN paymentFailed(settled["world"], settled["thrown"],
                     IF IsNull(w.page.parseDialog.invoice) THEN Null
                     ELSE Str(w.page.parseDialog.invoice.bolt11))
  ELSE refreshTransactions(getAssets(settled["world"]))

\* submitPaymentForm up to its await
submitPaymentForm(w) ==
  IF w.page.paymentDialog.inProgress \/ ~hasWallets(w.page) THEN w
  ELSE IF w.page.paymentDialog.form.paymentRequest = << >>
       THEN Notify(w, <<"Please", "enter", "an", "invoice", "to", "pay">>)
       ELSE IF w.page.paymentDialog.invoiceDecodeError
            THEN Notify(w, <<"Cannot", "pay", "an", "invalid", "invoice">>)
            ELSE LET started == [w EXCEPT !.page.paymentDialog.inProgress = TRUE]
                     outcome == PaymentService_payInvoice(
                                  started, "submitPaymentForm",
                                  w.page.paymentDialog.selectedAsset,
                                  w.page.paymentDialog.form.paymentRequest)
                 IN IF Has(outcome, "thrown")
                    THEN [processApiError(started, [message |-> outcome["thrown"]])
                            EXCEPT !.page.paymentDialog.inProgress = FALSE]
                    ELSE outcome["sent"]

\* submitPaymentForm from its await on; its finally block runs when the
\* handler ends, which is after the fallback's answer when it awaits one.
submitPaymentForm_resume(w, call, response) ==
  LET settled == payInvoice_settled(w, call, response)
      done == IF Has(settled, "thrown")
              THEN paymentFailed(settled["world"], settled["thrown"],
                                 Str(w.page.paymentDialog.form.paymentRequest))
              ELSE refreshTransactions(getAssets(settled["world"]))
  IN IF \E c \in done.page.calls : c.flow = "processInternalPayment"
     THEN done
     ELSE [done EXCEPT !.page.paymentDialog.inProgress = FALSE]

\* ----------------------------------------------------- the page's inputs
\* Requests that may await their response at once, the refresh of the
\* assets, of which getAssets allows one at a time, not counted.
MaxPending == 1

Bolt11 == <<"l", "n", "b", "c">>
Lnurl == <<"l", "n", "u", "r", "l">>
Blank == <<" ">>
\* What the user may put into the invoice field.
PaymentTexts == {Blank, Bolt11, Lnurl}
\* What the user may put into the amount field.
EnteredAmounts ==
  {Num(600), Num(601), Str(<<"6", "0", "1", " ">>), Str(<< >>)}

Refusals == {[detail |-> <<"channel", "offline">>], [detail |-> <<"no", "route">>]}
AssetAnswers == {[data |-> list] : list \in ListedAssets} \cup Refusals
InvoiceAnswers ==
  {[data |-> [id |-> "a", status |-> "pending"]]} \cup Refusals
ParseAnswers == {[data |-> [amount |-> n]] : n \in {3, 9}} \cup Refusals
\* The answers to POST pay: accepted with the status the backend reports, or
\* refused.
PaidWith(call) ==
  IF IsNull(call.asset) THEN [payment_hash |-> "p", asset_amount |-> 5]
  ELSE [payment_hash |-> "p", asset_amount |-> 5, asset_id |-> call.asset["asset_id"]]
PayAnswers(call) ==
  {[data |-> Assign(PaidWith(call), "status", "success")],
   [data |-> Assign(PaidWith(call), "status", "pending")],
   [data |-> Assign(Assign(PaidWith(call), "status", "failed"), "error", <<"no", "route">>)],
   [data |-> PaidWith(call)],
   [detail |-> <<"internal", "payment">>],
   [detail |-> <<"cannot", "pay", "own", "invoice">>],
   [detail |-> <<"channel", "offline">>]}

\* ----------------------------------------------------- the page's actions
\* arg is the answer a step resumes with; nothing for a step the user starts.
ApplyPage(w, op, answer) ==
  /\ Cardinality({call \in w.page.pending : call.flow # "getAssets"}) <= MaxPending
  /\ page' = w.page
  /\ invoices' = w.invoices
  /\ payments' = w.payments
  /\ lastOp' = op
  /\ arg' = answer
  /\ UNCHANGED <<managerVars, currentWallet, filters, issued, inflight, pushedSince>>

Awaited(flow) == {call \in page.pending : call.flow = flow}

GetAssets == ApplyPage(getAssets(Begin(World)), "getAssets", << >>)

GetAssetsResponse ==
  \E call \in Awaited("getAssets"), response \in AssetAnswers :
    ApplyPage(getAssets_resume(Settle(World, call), response),
              IF Has(response, "data") THEN "assetsListed" ELSE "assetsFailed", response)

OpenInvoiceDialog ==
  \E i \in 1..Len(Assets(page)) :
    /\ page.wizard = "invoice"
    /\ ApplyPage(openInvoiceDialog(Begin(World), Assets(page)[i]), "openInvoiceDialog", << >>)

EnterAmount ==
  /\ page.wizard = "invoice"
  /\ ~IsNull(page.invoiceDialog.selectedAsset)
  /\ \E amount \in EnteredAmounts :
       ApplyPage([Begin(World) EXCEPT !.page.invoiceDialog.form.amount = amount],
                 "enterAmount", << >>)

SubmitInvoiceForm ==
  /\ page.wizard = "invoice"
  /\ ApplyPage(submitInvoiceForm(Begin(World)), "submitInvoiceForm", << >>)

SubmitInvoiceResponse ==
  \E call \in Awaited("createInvoice"), response \in InvoiceAnswers :
    ApplyPage(submitInvoiceForm_resume(Settle(World, call), response),
              IF Has(response, "data") THEN "invoiceCreated" ELSE "invoiceFailed", response)

OpenPaymentDialog ==
  \E i \in 1..Len(Assets(page)) :
    /\ page.wizard = "pay"
    /\ ApplyPage(openPaymentDialog(Begin(World), Assets(page)[i]), "openPaymentDialog", << >>)

EnterRequest ==
  \E text \in PaymentTexts :
    /\ page.wizard = "pay"
    /\ ApplyPage([Begin(World) EXCEPT !.page.parseDialog.data.request = text],
              "enterRequest", << >>)

DecodeInvoice ==
  /\ page.wizard = "pay"
  /\ ApplyPage(decodeInvoice(Begin(World)), "decodeInvoice", << >>)

DecodeResponse ==
  \E call \in Awaited("decodeInvoice"), response \in ParseAnswers :
    ApplyPage(decodeInvoice_resume(Settle(World, call), response),
              IF Has(response, "data") THEN "decoded" ELSE "decodeFailed", response)

\* How a pay flow goes on after the answer.
Outcome(call, response) ==
  LET settled == payInvoice_settled(World, call, response) IN
  IF ~Has(settled, "thrown") THEN "paid"
  ELSE IF settled["thrown"].isInternalPayment THEN "payRejectedAsInternal"
       ELSE "payFailed"

PayParsedInvoice ==
  /\ page.wizard = "pay"
  /\ ApplyPage(payInvoice(Begin(World)), "payInvoice", << >>)

PayInvoiceResponse ==
  \E call \in Awaited("payInvoice") : \E response \in PayAnswers(call) :
    ApplyPage(payInvoice_resume(Settle(World, call), call, response),
              Outcome(call, response), response)

SubmitPaymentForm ==
  /\ page.wizard = "pay"
  /\ ApplyPage(submitPaymentForm(Begin(World)), "submitPaymentForm", << >>)

SubmitPaymentResponse ==
  \E call \in Awaited("submitPaymentForm") : \E response \in PayAnswers(call) :
    ApplyPage(submitPaymentForm_resume(Settle(World, call), call, response),
              Outcome(call, response), response)

InternalPaymentResponse ==
  \E call \in Awaited("processInternalPayment") : \E response \in PayAnswers(call) :
    ApplyPage(processInternalPayment_resume(Settle(World, call), response),
              IF Has(response, "data") THEN "internalPaid" ELSE "internalFailed", response)

PageInit ==
  /\ ManagerAtRest
  /\ StoreAtRest
  /\ lastOp = "none"
  /\ arg = << >>
  /\ \E wallets \in {"ok", "nokey", "none"}, wizard \in {"invoice", "pay"} :
       page = [InitPage EXCEPT !.wallets = wallets, !.wizard = wizard]

PageNext ==
  \/ GetAssets
  \/ GetAssetsResponse
  \/ OpenInvoiceDialog
  \/ EnterAmount
  \/ SubmitInvoiceForm
  \/ SubmitInvoiceResponse
  \/ OpenPaymentDialog
  \/ EnterRequest
  \/ DecodeInvoice
  \/ DecodeResponse
  \/ PayParsedInvoice
  \/ PayInvoiceResponse
  \/ SubmitPaymentForm
  \/ SubmitPaymentResponse
  \/ InternalPaymentResponse

PageSpec == PageInit /\ [][PageNext]_vars

\* ------------------------------------------------- the ceiling, evaluated
\* The amounts asked for, around the ceilings of the channels below.
CeilingAmounts == {0, 1, 9, 10, 11, 599, 600, 601, 1000, 1001}
\* What the amount field then holds: the number, or its digits as typed,
\* with blanks around them or not.
AmountsAsEntered ==
  {Num(n) : n \in CeilingAmounts}
    \cup {Str(NumberToString(n)) : n \in CeilingAmounts}
    \cup {Str(Blank \o NumberToString(n) \o Blank) : n \in CeilingAmounts}
    \cup {Str(<< >>)}
\* Assets whose channel reports capacity and local balance.
CeilingAssets ==
  {[asset_id |-> "A", user_balance |-> 5,
    channel_info |-> [capacity |-> Num(c), local_balance |-> Num(l), active |-> TRUE]] :
     c \in {10, 1000}, l \in {0, 10, 400}}

CeilingInit ==
  /\ ManagerAtRest
  /\ StoreAtRest
  /\ lastOp = "none"
  /\ arg = << >>
  /\ \E asset \in CeilingAssets \cup {Null}, amount \in AmountsAsEntered :
       page = [InitPage EXCEPT !.invoiceDialog.selectedAsset = asset,
                               !.invoiceDialog.form.amount = amount]

\* The template reads the two computed values.
EvaluateCeiling ==
  /\ lastOp = "none"
  /\ arg' = [valid |-> isInvoiceAmountValid(page), max |-> maxInvoiceAmount(page)]
  /\ lastOp' = "isInvoiceAmountValid"
  /\ UNCHANGED <<managerVars, invoices, payments, currentWallet, filters, issued,
                 inflight, pushedSince, page>>

CeilingSpec == CeilingInit /\ [][EvaluateCeiling]_vars

\* -------------------------------------------------------------------- C21
\* The amount field holds the number n, as a number or as its digits.
Denotes(value, n) ==
  \/ value = Num(n)
  \/ Has(value, "text") /\ trim(value["text"]) = NumberToString(n)

\* C21: with an asset selected whose channel reports capacity and local
\* balance, isInvoiceAmountValid is true exactly when the amount asked for
\* is at most capacity minus local balance; with no asset selected it is
\* false.
C21_ValidExactlyWithinCeiling ==
  lastOp = "isInvoiceAmountValid" =>
    LET asset == page.invoiceDialog.selectedAsset
        amount == page.invoiceDialog.form.amount
    IN IF IsNull(asset) THEN arg["valid"] = FALSE
       ELSE arg["valid"] <=>
              \E n \in CeilingAmounts :
                /\ Denotes(amount, n)
                /\ n + asset["channel_info"]["local_balance"]["num"]
                     <= asset["channel_info"]["capacity"]["num"]

\* Capacity 1000 and local balance 400: 600 has been found valid.
C21_Witness ==
  /\ lastOp = "isInvoiceAmountValid"
  /\ ~IsNull(page.invoiceDialog.selectedAsset)
  /\ page.invoiceDialog.selectedAsset["channel_info"]["capacity"] = Num(1000)
  /\ page.invoiceDialog.selectedAsset["channel_info"]["local_balance"] = Num(400)
  /\ page.invoiceDialog.form.amount = Num(600)
  /\ arg["valid"]

\* -------------------------------------------------------------------- C22
\* The request asks for more than the asset's channel can receive.
AboveCeiling(call) ==
  /\ Has(call.amount, "num")
  /\ Has(call.asset, "channel_info")
  /\ call.amount["num"] + call.asset["channel_info"]["local_balance"]["num"]
       > call.asset["channel_info"]["capacity"]["num"]

\* C22: submitting the invoice form never sends the POST invoice request
\* when the amount exceeds the selected asset's receivable ceiling.
C22_NoInvoiceRequestAboveCeiling ==
  \A call \in page.calls : call.endpoint = "POST invoice" => ~AboveCeiling(call)

\* -------------------------------------------------------------------- C23
PaymentEndpoints == {"GET parse-invoice", "POST pay"}

\* C23: no parse or pay request is sent for a wallet without admin key or
\* for an empty or blank payment string.
C23_NoRequestWithoutWalletOrText ==
  \A call \in page.calls :
    call.endpoint \in PaymentEndpoints =>
      page.wallets = "ok" /\ trim(call.request) # << >>

\* -------------------------------------------------------------------- C27
\* An asset of positive balance whose channel is not inactive.
Spendable(asset) ==
  /\ ~IsNull(asset)
  /\ asset["user_balance"] > 0
  /\ Has(asset, "channel_info") => asset["channel_info"]["active"]

\* C27: the pay handlers send POST pay only with a spendable asset
\* selected, and not when the parsed invoice asks for more than its balance.
C27_PayOnlyWithSufficientBalance ==
  lastOp \in {"payInvoice", "submitPaymentForm"} =>
    \A call \in page.calls :
      call.endpoint = "POST pay" =>
        /\ Spendable(call.asset)
        /\ ~IsNull(page.parseDialog.invoice) =>
             page.parseDialog.invoice.amount <= call.asset["user_balance"]

\* -------------------------------------------------------------------- C29
\* What POST lnurl/info answers for a payment string: the descriptor of the
\* link, which here accepts no assets; null for a string that is no LNURL.
LinkDescriptor(request) ==
  IF request = Lnurl THEN [tag |-> "payRequest", acceptsAssets |-> FALSE] ELSE Null

\* C29: no pay request is sent for an LNURL whose descriptor has
\* acceptsAssets false.
C29_NoPayForLinkRefusingAssets ==
  \A call \in page.calls :
    call.endpoint \in {"POST pay", "POST lnurl/pay"} =>
      \/ IsNull(LinkDescriptor(call.request))
      \/ LinkDescriptor(call.request)["acceptsAssets"]

\* -------------------------------------------------------------------- C24
PayOutcomes == {"paid", "payRejectedAsInternal", "payFailed"}

\* The answer to a pay request reports failure, or no status at all.
ReportsFailure(answer) ==
  /\ Has(answer, "data")
  /\ ~Has(answer["data"], "status") \/ answer["data"]["status"] = "failed"

\* C24: when the pay answer carries status failed or no status, payInvoice
\* throws: the page shows the backend's error message when the answer has
\* one, goes on to no refresh, and neither the payments nor the assets of
\* the store change.
C24_FailedStatusThrowsAndStoresNothing ==
  [][(lastOp' \in PayOutcomes /\ ReportsFailure(arg')) =>
       /\ lastOp' = "payFailed"
       /\ Has(arg'["data"], "error") => page'.notice = arg'["data"]["error"]
       /\ page'.calls = {}
       /\ payments' = payments
       /\ page'.storeAssets = page.storeAssets]_vars

\* A pay answer with status failed and an error message has arrived while
\* the store held a payment and assets.
C24_Witness ==
  /\ lastOp = "payFailed"
  /\ ReportsFailure(arg)
  /\ Has(arg["data"], "status")
  /\ page.notice = <<"no", "route">>
  /\ payments # << >>
  /\ page.storeAssets # << >>

\* -------------------------------------------------------------------- C25
\* The pay request whose answer the step resumes with.
Answered == page.pending \ page'.pending

InternalFallbacks(calls) == {call \in calls : call.flow = "processInternalPayment"}

\* C25: when a pay request is refused with a detail containing 'internal
\* payment' or 'own invoice', exactly one request through the
\* internal-payment path is sent, for the same payment request; when that
\* one is refused, no further pay request is sent.
C25_OneFallbackForTheSameRequest ==
  [][/\ (lastOp' \in PayOutcomes /\ Has(arg', "detail")
           /\ isInternalDetail(arg'["detail"])) =>
          /\ Cardinality(InternalFallbacks(page'.calls)) = 1
          /\ \A call \in InternalFallbacks(page'.calls), pay \in Answered :
               call.endpoint = "POST pay" /\ call.request = pay.request
     /\ (lastOp' = "internalFailed") =>
          \A call \in page'.calls : call.endpoint # "POST pay"]_vars

\* -------------------------------------------------------------------- C26
FailedOps == {"assetsFailed", "invoiceFailed", "payFailed", "internalFailed"}

\* A request of one of these flows awaits its answer.
Awaiting(flows) == \E call \in page.pending : call.flow \in flows

\* C26: a guard flag is set only while a request of its kind awaits its
\* answer, so that after a failed operation, whose request is answered, the
\* flag is false again unless another operation of the kind is under way,
\* and the guard of the next operation of the kind lets it through.
C26_FlagsSetOnlyWhileAwaiting ==
  /\ page.isRefreshing => Awaiting({"getAssets"})
  /\ page.isSubmitting => Awaiting({"createInvoice"})
  /\ page.paymentDialog.inProgress =>
       Awaiting({"submitPaymentForm", "processInternalPayment"})

\* An internal payment has failed after the pay request was refused, and no
\* flag is left set.
C26_Witness ==
  /\ lastOp = "internalFailed"
  /\ page.pending = {}
  /\ ~page.isRefreshing
  /\ ~page.isSubmitting
  /\ ~page.paymentDialog.inProgress

\* ======================================================================
\*              The status the manager publishes to the store
\* ======================================================================

\* C31: whenever the manager reports connected (state.connected and the
\* store's websocketStatus.connected), a user identity is set and at least
\* one of the three connection objects is tracked, also after connect()
\* without an identity and after every constructor failed synchronously.
C31_ConnectedMeansIdentifiedAndTracked ==
  (connected /\ websocketStatus.connected) =>
    (userId # NoUser /\ \E t \in Types : connections[t] # "null")

\* setInterval handles the browser holds: a polling interval is running.
PollingRuns == intervals > 0

\* C32: after every completed operation or event handler the published
\* status mirrors the manager: websocketStatus.connected equals
\* state.connected, and websocketStatus.fallbackPolling is true exactly when
\* a polling interval is running.
C32_StoreStatusMirrorsManager ==
  /\ websocketStatus.connected = connected
  /\ websocketStatus.fallbackPolling <=> PollingRuns
\* ======================================================================
\*                          Failed REST refreshes
\* ======================================================================
RefreshResponses == {"invoicesResponse", "paymentsResponse"}

UniqueIds(list) ==
  \A i, j \in 1..Len(list) : list[i]["id"] = list[j]["id"] => i = j

\* C34: starting from collections without duplicate ids, after any sequence
\* of addInvoice, updateInvoice, addPayment and updatePayment calls no two
\* records in state.invoices share an id and no two in state.payments do.
C34_IdsStayUnique == UniqueIds(invoices) /\ UniqueIds(payments)

\* Both invoice ids are in the store, and the latest call was an upsert of an
\* id the store already held (the record came in without the new-record mark).
C34_Witness ==
  /\ Len(invoices) = 2
  /\ lastOp \in {"addInvoice", "addInvoiceAgain"}
  /\ \E i \in 1..Len(invoices) :
       invoices[i]["id"] = arg["data"]["id"] /\ ~Has(invoices[i], "_isNew")
  /\ Len(payments) = 1
\* ======================================================================
\*                   Push messages as the sockets deliver them
\* ======================================================================
\* event.data is a text: one that JSON.parse turns into a value, or one it
\* throws on.
Json(value) == [json |-> value]
NotJson == [garbage |-> TRUE]
JSON_parse(text) == IF Has(text, "json") THEN text["json"] ELSE [thrown |-> TRUE]

\* new Set(existingAssets.map(a => a.asset_id))
AssetIdsOf(list) == {list[i]["asset_id"] : i \in 1..Len(list)}

\* The forEach of AssetService.processWebSocketUpdate over the batch.
RECURSIVE AssetService_mergeEach(_, _, _)
AssetService_mergeEach(updatedAssets, assetIds, batch) ==
  IF batch = << >> THEN updatedAssets
  ELSE LET asset == Head(batch)
           id == Get(asset, "asset_id")
       IN IF ~Truthy(id) THEN AssetService_mergeEach(updatedAssets, assetIds, Tail(batch))
          ELSE IF id \in assetIds
               THEN LET index == findAsset(updatedAssets, id) IN
                    AssetService_mergeEach(
                      IF index # 0
                      THEN [updatedAssets EXCEPT ![index] = Spread(@, asset)]
                      ELSE updatedAssets,
                      assetIds, Tail(batch))
               ELSE AssetService_mergeEach(Append(updatedAssets, asset),
                                           assetIds \cup {id}, Tail(batch))

\* The store's assets after AssetService.processWebSocketUpdate(data).
AssetService_processWebSocketUpdate(assets, data) ==
  IF Get(data, "type") = "assets_update" /\ Has(data, "data")
  THEN AssetService_mergeEach(assets, AssetIdsOf(assets), data["data"])
  ELSE assets

\* The second forEach of WebSocketManager._processAssetUpdate.
RECURSIVE _processAssetUpdate_each(_, _, _)
_processAssetUpdate_each(updatedAssets, assetIds, batch) ==
  IF batch = << >> THEN updatedAssets
  ELSE LET asset == Head(batch)
           id == Get(asset, "asset_id")
       IN IF ~Truthy(id) THEN _processAssetUpdate_each(updatedAssets, assetIds, Tail(batch))
          ELSE IF id \in assetIds
               THEN LET index == findAsset(updatedAssets, id) IN
                    _processAssetUpdate_each(
                      IF index # 0
                      THEN [updatedAssets EXCEPT ![index] = Spread(@, asset)]
                      ELSE updatedAssets,
                      assetIds, Tail(batch))
               ELSE _processAssetUpdate_each(Append(updatedAssets, asset),
                                             assetIds, Tail(batch))

\* The store's assets after this._processAssetUpdate(assets).
_processAssetUpdate(assets, batch) ==
  _processAssetUpdate_each(assets, AssetIdsOf(assets), batch)

\* What the message handlers work on: the store's collections and requests,
\* the store's assets, and whether AssetService is there to take the batch.
Hub == [store |-> Fresh, assets |-> page.storeAssets, assetService |-> page.assetService]

\* Faulty variant: the catch block refreshes the transactions.
InvoiceSocket_onmessage_refreshOnError(h, event) ==
  LET data == JSON_parse(event) IN
  IF Has(data, "thrown") THEN [h EXCEPT !.store = _refreshTransactions(@)]
  ELSE [h EXCEPT !.store = _handleInvoiceMessage(@, data)]

\* connections.invoices.onmessage: _handleInvoiceMessage with its try/catch
\* around JSON.parse.
InvoiceSocket_onmessage(h, event) ==
  LET data == JSON_parse(event) IN
  IF Has(data, "thrown") THEN h
  ELSE [h EXCEPT !.store = _handleInvoiceMessage(@, data)]

\* connections.payments.onmessage: _handlePaymentMessage.
PaymentSocket_onmessage(h, event) ==
  LET data == JSON_parse(event) IN
  IF Has(data, "thrown") THEN h
  ELSE [h EXCEPT !.store = _handlePaymentMessage(@, data)]

\* connections.balances.onmessage: _handleBalanceMessage, the whole of it.
BalanceSocket_onmessage(h, event) ==
  LET data == JSON_parse(event) IN
  IF Has(data, "thrown") THEN h
  ELSE IF Get(data, "type") = "assets_update" /\ Has(data, "data")
       THEN [h EXCEPT !.assets = IF h.assetService
                                 THEN AssetService_processWebSocketUpdate(@, data)
                                 ELSE _processAssetUpdate(@, data["data"]),
                      !.store = _handleBalanceMessage(@)]
       ELSE h

\* ------------------------------------------------------------- the inputs
\* Assets a batch may carry at most.
MaxBatch == 2

OldAssetA == [asset_id |-> "A", name |-> "old", user_balance |-> 5]
\* The store's assets when the first push arrives: not listed yet, or listed.
AssetsAtFirstPush == {<< >>, <<OldAssetA>>}

\* The entries of an assets_update batch: a name for asset A, a name for
\* asset B, an entry without asset_id.
AssetUpdates ==
  {[asset_id |-> "A", name |-> "new"], [asset_id |-> "B", name |-> "new"], [name |-> "new"]}

RECURSIVE Batches(_)
Batches(n) ==
  IF n = 0 THEN {<< >>}
  ELSE Batches(n - 1) \cup
       {Append(b, u) : b \in {x \in Batches(n - 1) : Len(x) = n - 1}, u \in AssetUpdates}

AssetEnvelopes == {[type |-> "assets_update", data |-> b] : b \in Batches(MaxBatch)}

PaidInvoice == [type |-> "invoice_update", data |-> [id |-> "a", status |-> "paid"]]
CompletedPayment == [type |-> "payment_update", data |-> [id |-> "p", status |-> "completed"]]
NewAssetTwice ==
  [type |-> "assets_update",
   data |-> <<[asset_id |-> "B", name |-> "new"], [asset_id |-> "B", name |-> "new"]>>]

\* The texts a channel may deliver: its own envelopes, those of the other
\* channels, an envelope without data, a text that is not JSON.
InvoiceEvents ==
  {Json(PaidInvoice), Json(CompletedPayment), Json([type |-> "invoice_update"]), NotJson}
PaymentEvents ==
  {Json(PaidInvoice), Json(CompletedPayment), Json([type |-> "payment_update"]), NotJson}
ForeignEvents ==
  {Json(PaidInvoice), Json(CompletedPayment), Json([type |-> "assets_update"]), NotJson}
BalanceEvents == {Json(e) : e \in AssetEnvelopes}

\* ------------------------------------------------------------ the actions
ApplyPush(h, op, event) ==
  /\ invoices' = h.store.invoices
  /\ payments' = h.store.payments
  /\ currentWallet' = h.store.currentWallet
  /\ filters' = h.store.filters
  /\ issued' = h.store.issued
  /\ page' = [page EXCEPT !.storeAssets = h.assets]
  /\ arg' = event
  /\ lastOp' = op
  /\ UNCHANGED <<managerVars, inflight, pushedSince>>

InvoicePush ==
  \E event \in InvoiceEvents : ApplyPush(InvoiceSocket_onmessage(Hub, event), "invoicePush", event)

PaymentPush ==
  \E event \in PaymentEvents : ApplyPush(PaymentSocket_onmessage(Hub, event), "paymentPush", event)

BalancePush ==
  \E event \in BalanceEvents : ApplyPush(BalanceSocket_onmessage(Hub, event), "balancePush", event)

\* An assets_update arrives on the invoices or on the payments channel, or a
\* text that is none on the balances channel.
MisroutedPush ==
  \/ ApplyPush(InvoiceSocket_onmessage(Hub, Json(NewAssetTwice)), "invoicePush",
               Json(NewAssetTwice))
  \/ ApplyPush(PaymentSocket_onmessage(Hub, Json(NewAssetTwice)), "paymentPush",
               Json(NewAssetTwice))
  \/ \E event \in ForeignEvents :
       ApplyPush(BalanceSocket_onmessage(Hub, event), "balancePush", event)

\* The three sockets are open for user u1; the page has listed its assets or
\* not yet, and has named its wallet to the store or not yet.
PushInit ==
  /\ connections = [t \in Types |-> "OPEN"]
  /\ orphans = InitState.orphans
  /\ reconnectAttempts = 0
  /\ reconnectTimeout = "null"
  /\ timers = 0
  /\ fallbackPolling = FALSE
  /\ pollingInterval = FALSE
  /\ intervals = 0
  /\ connected = TRUE
  /\ userId = "u1"
  /\ wsRequests = Types
  /\ websocketStatus = [connected |-> TRUE, reconnecting |-> FALSE, fallbackPolling |-> FALSE]
  /\ ctorThrows = FALSE
  /\ lastOp = "none"
  /\ \E assets \in AssetsAtFirstPush, service \in BOOLEAN :
       page = [InitPage EXCEPT !.storeAssets = assets, !.assetService = service]
  /\ invoices = << >>
  /\ payments = << >>
  /\ currentWallet \in BOOLEAN
  /\ filters = defaultFilters
  /\ issued = {}
  /\ inflight = [k \in ListKinds |-> 0]
  /\ arg = << >>
  /\ pushedSince = "none"

PushNext == InvoicePush \/ PaymentPush \/ BalancePush \/ MisroutedPush

PushSpec == PushInit /\ [][PushNext]_vars

\* ----------------------------------------------------------------- C35
UniqueAssetIds(list) ==
  \A i, j \in 1..Len(list) : list[i]["asset_id"] = list[j]["asset_id"] => i = j

\* The step delivered an assets_update batch on the balances channel.
IsBatch(op, event) ==
  /\ op = "balancePush"
  /\ Has(event, "json")
  /\ event["json"]["type"] = "assets_update"
  /\ Has(event["json"], "data")

\* record with every entry of the batch that names its asset_id spread over
\* it, in the batch's order.
RECURSIVE SpreadOver(_, _)
SpreadOver(record, batch) ==
  IF batch = << >> THEN record
  ELSE SpreadOver(IF Get(Head(batch), "asset_id") = record["asset_id"]
                  THEN Spread(record, Head(batch)) ELSE record,
                  Tail(batch))

PushOps == {"invoicePush", "paymentPush", "balancePush"}

\* The type tag a channel's handler expects.
ExpectedType(op) ==
  IF op = "invoicePush" THEN "invoice_update"
  ELSE IF op = "paymentPush" THEN "payment_update" ELSE "assets_update"

\* The text is not JSON, or its type tag is not the channel's.
Foreign(op, event) ==
  Has(event, "json") => Get(event["json"], "type") # ExpectedType(op)

\* C39: a push message that is not valid JSON, or whose type tag is not the
\* one expected on its channel, leaves state.invoices, state.payments and
\* state.assets unchanged, triggers no refresh, and changes nothing in the
\* connection state (connections, retry counter, timers).
C39_ForeignMessageChangesNothing ==
  [][(lastOp' \in PushOps /\ Foreign(lastOp', arg')) =>
       /\ invoices' = invoices
       /\ payments' = payments
       /\ page'.storeAssets = page.storeAssets
       /\ issued' = {}
       /\ connections' = connections
       /\ reconnectAttempts' = reconnectAttempts
       /\ reconnectTimeout' = reconnectTimeout
       /\ timers' = timers
       /\ intervals' = intervals]_vars

\* A text that is not JSON arrived on the invoices channel of a store that
\* holds an invoice, a payment and an asset and has a wallet to refresh for.
C39_Witness ==
  /\ lastOp = "invoicePush"
  /\ ~Has(arg, "json")
  /\ currentWallet
  /\ invoices # << >>
  /\ payments # << >>
  /\ page.storeAssets # << >>

\* ======================================================================
\*                         Requests in flight
\* ======================================================================
\* The user's two ways of submitting a payment.
SubmitPayOps == {"payInvoice", "submitPaymentForm"}

PayRequests(calls) == {call \in calls : call.endpoint = "POST pay"}

\* C36: at most one pay request is in flight at any time: while a pay call
\* issued from the UI (payInvoice from the parse dialog, submitPaymentForm, or
\* the internal-payment fallback) has not settled, a second user submit does
\* not issue another POST pay request.
C36_OnePayRequestInFlight ==
  [][(lastOp' \in SubmitPayOps /\ PayRequests(page.pending) # {}) =>
       PayRequests(page'.calls) = {}]_vars

InvoiceRequests(calls) == {call \in calls : call.endpoint = "POST invoice"}

\* C37: at most one create-invoice request is in flight at any time: while
\* a submitInvoiceForm call has not settled, no second POST invoice request
\* is issued, whatever dialog operations (close, reopen, reset form) the user
\* performs in between.
C37_OneInvoiceRequestInFlight ==
  [][InvoiceRequests(page.pending) # {} => InvoiceRequests(page'.calls) = {}]_vars

\* ======================================================================
\*                      The balance after a payment
\* ======================================================================
\* The backend lists the assets after asset A has received 3 units.
AssetsAfterReceipt == <<[AssetA EXCEPT !.user_balance = 8], AssetB, AssetC>>

\* A getAssets request is answered with that list.
AssetsRelisted ==
  \E call \in Awaited("getAssets") :
    ApplyPage(getAssets_resume(Settle(World, call), [data |-> AssetsAfterReceipt]),
              "assetsListed", [data |-> AssetsAfterReceipt])

BalanceNext == PageNext \/ AssetsRelisted

BalanceSpec == PageInit /\ [][BalanceNext]_vars

\* The step completed a pay call whose answer reports success for an asset
\* the store holds.
PaidFromStore(op, answer, assets) ==
  /\ op \in {"paid", "internalPaid"}
  /\ Has(answer, "data")
  /\ Get(answer["data"], "status") = "success"
  /\ Has(answer["data"], "asset_id")
  /\ findAsset(assets, answer["data"]["asset_id"]) # 0

RECURSIVE IdsOf(_)
\* The ids of the transactions of a list, in the list's order.
IdsOf(list) ==
  IF list = << >> THEN << >> ELSE <<Head(list)["id"]>> \o IdsOf(Tail(list))

\* C40: for the same invoices, payments and filter values (direction,
\* status, search text, date from/to), the store getter filteredTransactions
\* returns the same sequence of transaction ids as DataUtils.filterTransactions
\* applied to DataUtils.combineTransactions, as the page's applyFilters uses it.
C40_FilterImplementationsAgree ==
  IdsOf(filteredTransactions(Store)) = IdsOf(applyFilters(Store))

\* A search text and a direction are chosen, and both implementations keep
\* some of the transactions and drop others.
C40_Witness ==
  /\ filters["searchText"] # << >>
  /\ filters["direction"] # "all"
  /\ Len(applyFilters(Store)) > 0
  /\ Len(filteredTransactions(Store)) < Len(combinedTransactions(Store))
====
